---- MODULE Spec2Model ----
(***************************************************************************)
(* The two ledger contracts of frost-key-chain, FrostKeyChain.sol (key     *)
(* entries, with an update path) and ColdChainTracker.sol (temperature     *)
(* logs, append only), as one state machine.  A call is one atomic action  *)
(* (the EVM runs a transaction to completion or reverts it); tx is the     *)
(* transaction just mined, until its sender has read the receipt, and      *)
(* okAppends counts the appends that succeeded.                            *)
(*                                                                         *)
(* Cryptography is symbolic: keccak256 and abi.encode are injective, a     *)
(* signature is the pair (signer, signed hash), ECDSA.recover returns the  *)
(* signer when the hash is the signed one and an address nobody controls   *)
(* otherwise, and reverts on a malformed signature.                        *)
(***************************************************************************)
EXTENDS Integers, Sequences, FiniteSets, TLC

VARIABLES _keys, _keysOf, _logs, _logsOf, acl, keyEvents, logEvents, now,
          okAppends, tx, reading, coldChainTracker, frostKeyChain, calls, header

\* the state of the contracts and of their host
chain == <<_keys, _keysOf, _logs, _logsOf, acl, keyEvents, logEvents, now,
           okAppends, tx>>

\* the state of the web client
frontend == <<reading, coldChainTracker, frostKeyChain, calls, header>>

vars == <<chain, frontend>>

(***************************************************************************)
(* Bounds of the model.                                                    *)
(***************************************************************************)
MaxRecords == 2   \* records in the two ledgers together
MaxTime == 2      \* last block timestamp
NumValues == 2    \* distinct ciphertexts each user can submit

(***************************************************************************)
(* Strings.  A string is "a"^a ++ "密"^cjk ++ "🔑"^emoji: a run of 1-byte  *)
(* characters, a run of 3-byte characters of the basic plane and a run of  *)
(* 4-byte characters outside it.                                           *)
(***************************************************************************)
Str(n1, n3, n4) == [a |-> n1, cjk |-> n3, emoji |-> n4]

EmptyStr == Str(0, 0, 0)

\* bytes(s).length in Solidity: the length of the UTF-8 encoding
bytesLength(s) == s.a + 3 * s.cjk + 4 * s.emoji

\* s.length in JavaScript: the number of UTF-16 code units
jsLength(s) == s.a + s.cjk + 2 * s.emoji

\* the number of characters (code points) of s
charCount(s) == s.a + s.cjk + s.emoji

KeyNames == {EmptyStr, Str(1, 0, 0), Str(100, 0, 0), Str(101, 0, 0), Str(0, 34, 0)}

\* (location, cargo) pairs
LogMetas ==
    {<<EmptyStr, Str(3, 0, 0)>>, <<Str(1, 0, 0), EmptyStr>>, <<Str(1, 0, 0), Str(3, 0, 0)>>}

(***************************************************************************)
(* Identities.                                                             *)
(***************************************************************************)
Users == {"alice", "bob"}

\* the keys of the owner mappings: the users and an address that never calls
Addresses == Users \cup {"carol"}

KeyChainAddress == "FrostKeyChain"

TrackerAddress == "ColdChainTracker"

\* what ecrecover yields for a signature made over another hash
UnknownAddress == "0xUnknown"

Ids == 0 .. MaxRecords

(***************************************************************************)
(* Encrypted inputs.  A handle names the user it was encrypted for and the *)
(* ciphertext; the input proof is either the one the encryption produced   *)
(* or garbage.                                                             *)
(***************************************************************************)
Handle(user, n) == [user |-> user, n |-> n]

Other(user) == CHOOSE u \in Users : u # user

\* what a sender submits: an own ciphertext with its proof, an own ciphertext
\* with a garbage proof, or a ciphertext and proof made for the other user
EncryptedInputs(sender) ==
    {[handle |-> Handle(sender, n), inputProof |-> "proof"] : n \in 1 .. NumValues}
    \cup {[handle |-> Handle(sender, 1), inputProof |-> "garbage"],
          [handle |-> Handle(Other(sender), 1), inputProof |-> "proof"]}

\* FHE.fromExternal(encValue, inputProof) succeeds only on the proof made
\* for this handle and this sender
FHE_proofOk(sender, encValue, inputProof) ==
    inputProof = "proof" /\ encValue.user = sender

(***************************************************************************)
(* Digests and signatures.                                                 *)
(***************************************************************************)
STORE_KEY_TYPEHASH == "FrostKeyChain.store(address owner,string keyName)"

UPDATE_KEY_TYPEHASH == "FrostKeyChain.update(address owner,uint256 id)"

RECORD_TEMP_TYPEHASH == "ColdChainTracker.record(address recorder,string location,string cargo)"

\* one 32-byte word of an abi.encode: the hash of a string or a uint256
HashWord(s) == [k |-> "keccak256", s |-> s, n |-> 0]

UintWord(n) == [k |-> "uint256", s |-> EmptyStr, n |-> n]

\* keccak256(abi.encode(typehash, sender, words...))
Digest(typehash, sender, words) == [typehash |-> typehash, sender |-> sender, words |-> words]

StoreDigest(sender, keyName) == Digest(STORE_KEY_TYPEHASH, sender, <<HashWord(keyName)>>)

UpdateDigest(sender, id) == Digest(UPDATE_KEY_TYPEHASH, sender, <<UintWord(id)>>)

RecordDigest(sender, location, cargo) ==
    Digest(RECORD_TEMP_TYPEHASH, sender, <<HashWord(location), HashWord(cargo)>>)

\* MessageHashUtils.toEthSignedMessageHash
toEthSignedMessageHash(digest) == [prefix |-> "\\x19Ethereum Signed Message:\\n32", digest |-> digest]

\* signer.signMessage(getBytes(digest))
Sign(signer, digest) == [signer |-> signer, hash |-> toEthSignedMessageHash(digest)]

\* 65 bytes that are no signature at all
Malformed == [signer |-> "nobody", hash |-> toEthSignedMessageHash(Digest("", "", <<>>))]

\* ECDSA.recover: "revert" stands for ECDSAInvalidSignature
ECDSA_recover(hash, signature) ==
    IF signature = Malformed THEN "revert"
    ELSE IF signature.hash = hash THEN signature.signer
    ELSE UnknownAddress

(***************************************************************************)
(* The transaction last mined.                                             *)
(***************************************************************************)
NoTx ==
    [status |-> "none", op |-> "none", sender |-> "nobody", owner |-> "nobody", id |-> 0,
     keyName |-> EmptyStr, location |-> EmptyStr, cargo |-> EmptyStr,
     encValue |-> Handle("nobody", 0), inputProof |-> "garbage",
     isWarning |-> FALSE, signature |-> Malformed, outcome |-> "none"]

\* the signatures a sender tries on a call whose digest is digest: none at
\* all, the right one, the other user's over the same digest, and the
\* sender's own over other digests
SignaturesFor(sender, digest, others) ==
    {Malformed, Sign(sender, digest), Sign(Other(sender), digest)}
    \cup {Sign(sender, d) : d \in others \ {digest}}

(***************************************************************************)
(* What both contracts do the same way.                                    *)
(***************************************************************************)
\* a call whose writes survive a failed require
AfterCall_noRevert(outcome, before, after) == after

\* a storage variable after a call: a failed require reverts the whole call
AfterCall(outcome, before, after) == IF outcome = "ok" THEN after ELSE before

\* a record appended without its index entry
IndexPush_forgets(index, sender, id) == index

\* the push made into every owner's index
IndexPush_everyOwner(index, sender, id) == [o \in DOMAIN index |-> Append(index[o], id)]

\* _keysOf[msg.sender].push(id), _logsOf[msg.sender].push(id)
IndexPush(index, sender, id) == [index EXCEPT ![sender] = Append(@, id)]

\* FHE.allow(handle, msg.sender) without FHE.allowThis(handle)
Allow_senderOnly(self, handle, sender) == {<<handle, sender>>}

\* grants that also reach the other user
Allow_everyUser(self, handle, sender) == {<<handle, self>>} \cup {<<handle, u>> : u \in Users}

\* FHE.allowThis(handle); FHE.allow(handle, msg.sender)
Allow(self, handle, sender) == {<<handle, self>>, <<handle, sender>>}

\* an emit that logs the event twice
Emit_twice(events, event) == Append(Append(events, event), event)

\* emit: the event joins the log of the contract
Emit(events, event) == Append(events, event)

\* an access-control list that keeps only the grants just made
Grant_dropsEarlier(granted, grants) == grants

\* the access-control list after grants: it has no revoke that the ledgers call
Grant(granted, grants) == granted \cup grants

(***************************************************************************)
(* FrostKeyChain.sol                                                       *)
(***************************************************************************)
\* _verifyStoreSignature with a digest that leaves the key name out
_verifyStoreSignature_anyName(sender, keyName, signature) ==
    LET digest == StoreDigest(sender, Str(1, 0, 0))
        hash == toEthSignedMessageHash(digest)
        signer == ECDSA_recover(hash, signature)
    IN  IF signer = "revert" THEN "ECDSAInvalidSignature"
        ELSE IF signer # sender THEN "Invalid store signature"
        ELSE "ok"

_verifyStoreSignature(sender, keyName, signature) ==
    LET digest == StoreDigest(sender, keyName)
        hash == toEthSignedMessageHash(digest)
        signer == ECDSA_recover(hash, signature)
    IN  IF signer = "revert" THEN "ECDSAInvalidSignature"
        ELSE IF signer # sender THEN "Invalid store signature"
        ELSE "ok"

_verifyUpdateSignature(sender, id, signature) ==
    LET digest == UpdateDigest(sender, id)
        hash == toEthSignedMessageHash(digest)
        signer == ECDSA_recover(hash, signature)
    IN  IF signer = "revert" THEN "ECDSAInvalidSignature"
        ELSE IF signer # sender THEN "Invalid update signature"
        ELSE "ok"

\* storeKey that verifies the signature and the proof before it validates the name
storeKeyOutcome_validatesLast(sender, keyName, encValue, inputProof, signature) ==
    IF _verifyStoreSignature(sender, keyName, signature) # "ok"
        THEN _verifyStoreSignature(sender, keyName, signature)
    ELSE IF ~FHE_proofOk(sender, encValue, inputProof) THEN "InvalidCiphertextProof"
    ELSE IF ~(bytesLength(keyName) > 0) THEN "Key name cannot be empty"
    ELSE IF ~(bytesLength(keyName) <= 100) THEN "Key name too long"
    ELSE "ok"

\* storeKey with signatures that can be used once
storeKeyOutcome_singleUse(sender, keyName, encValue, inputProof, signature) ==
    IF ~(bytesLength(keyName) > 0) THEN "Key name cannot be empty"
    ELSE IF ~(bytesLength(keyName) <= 100) THEN "Key name too long"
    ELSE IF _verifyStoreSignature(sender, keyName, signature) # "ok"
        THEN _verifyStoreSignature(sender, keyName, signature)
    ELSE IF \E i \in 1 .. Len(_keys) : _keys[i].owner = sender /\ _keys[i].keyName = keyName
        THEN "Invalid store signature"
    ELSE IF ~FHE_proofOk(sender, encValue, inputProof) THEN "InvalidCiphertextProof"
    ELSE "ok"

\* the require of storeKey that fails first, "ok" when none does
storeKeyOutcome(sender, keyName, encValue, inputProof, signature) ==
    IF ~(bytesLength(keyName) > 0) THEN "Key name cannot be empty"
    ELSE IF ~(bytesLength(keyName) <= 100) THEN "Key name too long"
    ELSE IF _verifyStoreSignature(sender, keyName, signature) # "ok"
        THEN _verifyStoreSignature(sender, keyName, signature)
    ELSE IF ~FHE_proofOk(sender, encValue, inputProof) THEN "InvalidCiphertextProof"
    ELSE "ok"

\* a new entry that counts as never updated
NewKeyEntry_updatedAtZero(sender, keyName, encValue) ==
    [owner |-> sender, keyName |-> keyName, encryptedValue |-> encValue,
     createdAt |-> now, updatedAt |-> 0]

\* the entry storeKey pushes
NewKeyEntry(sender, keyName, encValue) ==
    [owner |-> sender, keyName |-> keyName, encryptedValue |-> encValue,
     createdAt |-> now, updatedAt |-> now]

storeKey(sender, keyName, encValue, inputProof, signature) ==
    LET outcome == storeKeyOutcome(sender, keyName, encValue, inputProof, signature)
        entry == NewKeyEntry(sender, keyName, encValue)
        id == Len(_keys)
    IN  /\ outcome = "ok" => Len(_keys) + Len(_logs) < MaxRecords
        /\ _keys' = AfterCall(outcome, _keys, Append(_keys, entry))
        /\ _keysOf' = AfterCall(outcome, _keysOf, IndexPush(_keysOf, sender, id))
        /\ acl' = AfterCall(outcome, acl,
                      Grant(acl, Allow(KeyChainAddress, entry.encryptedValue, sender)))
        /\ keyEvents' = AfterCall(outcome, keyEvents, Emit(keyEvents,
                      [name |-> "KeyStored", id |-> id, owner |-> sender,
                       keyName |-> keyName, at |-> entry.createdAt]))
        /\ okAppends' = [okAppends EXCEPT !.keys = IF outcome = "ok" THEN @ + 1 ELSE @]
        /\ tx' = [NoTx EXCEPT !.status = "mined", !.op = "storeKey",
                      !.sender = sender, !.keyName = keyName,
                      !.encValue = encValue, !.inputProof = inputProof,
                      !.signature = signature, !.outcome = outcome]
        /\ UNCHANGED <<_logs, _logsOf, logEvents, now>>

\* updateKey without require(_keys[id].owner == msg.sender)
updateKeyOutcome_noOwnerCheck(sender, id, encValue, inputProof, signature) ==
    IF ~(id < Len(_keys)) THEN "Key does not exist"
    ELSE IF ~(_keys[id + 1].updatedAt < now) THEN "Cannot update same timestamp"
    ELSE IF _verifyUpdateSignature(sender, id, signature) # "ok"
        THEN _verifyUpdateSignature(sender, id, signature)
    ELSE IF ~FHE_proofOk(sender, encValue, inputProof) THEN "InvalidCiphertextProof"
    ELSE "ok"

\* updateKey with updatedAt <= block.timestamp
updateKeyOutcome_sameTimestampAllowed(sender, id, encValue, inputProof, signature) ==
    IF ~(id < Len(_keys)) THEN "Key does not exist"
    ELSE IF ~(_keys[id + 1].owner = sender) THEN "Not the owner"
    ELSE IF ~(_keys[id + 1].updatedAt <= now) THEN "Cannot update same timestamp"
    ELSE IF _verifyUpdateSignature(sender, id, signature) # "ok"
        THEN _verifyUpdateSignature(sender, id, signature)
    ELSE IF ~FHE_proofOk(sender, encValue, inputProof) THEN "InvalidCiphertextProof"
    ELSE "ok"

\* updateKey that verifies the signature before it looks at the owner
updateKeyOutcome_signatureFirst(sender, id, encValue, inputProof, signature) ==
    IF ~(id < Len(_keys)) THEN "Key does not exist"
    ELSE IF _verifyUpdateSignature(sender, id, signature) # "ok"
        THEN _verifyUpdateSignature(sender, id, signature)
    ELSE IF ~(_keys[id + 1].owner = sender) THEN "Not the owner"
    ELSE IF ~(_keys[id + 1].updatedAt < now) THEN "Cannot update same timestamp"
    ELSE IF ~FHE_proofOk(sender, encValue, inputProof) THEN "InvalidCiphertextProof"
    ELSE "ok"

\* the require of updateKey that fails first, "ok" when none does
updateKeyOutcome(sender, id, encValue, inputProof, signature) ==
    IF ~(id < Len(_keys)) THEN "Key does not exist"
    ELSE IF ~(_keys[id + 1].owner = sender) THEN "Not the owner"
    ELSE IF ~(_keys[id + 1].updatedAt < now) THEN "Cannot update same timestamp"
    ELSE IF _verifyUpdateSignature(sender, id, signature) # "ok"
        THEN _verifyUpdateSignature(sender, id, signature)
    ELSE IF ~FHE_proofOk(sender, encValue, inputProof) THEN "InvalidCiphertextProof"
    ELSE "ok"

\* an update that sets updatedAt back to createdAt
UpdatedKeyEntry_resetsUpdatedAt(entry, encValue) ==
    [entry EXCEPT !.encryptedValue = encValue, !.updatedAt = entry.createdAt]

\* an update that leaves updatedAt as it was
UpdatedKeyEntry_keepsUpdatedAt(entry, encValue) ==
    [entry EXCEPT !.encryptedValue = encValue]

\* an update that also restamps createdAt
UpdatedKeyEntry_restampsCreatedAt(entry, encValue) ==
    [entry EXCEPT !.encryptedValue = encValue, !.createdAt = now, !.updatedAt = now]

\* entry.encryptedValue = encryptedValue; entry.updatedAt = uint64(block.timestamp)
UpdatedKeyEntry(entry, encValue) ==
    [entry EXCEPT !.encryptedValue = encValue, !.updatedAt = now]

updateKey(sender, id, encValue, inputProof, signature) ==
    LET outcome == updateKeyOutcome(sender, id, encValue, inputProof, signature)
    IN  /\ _keys' = AfterCall(outcome, _keys,
                        [_keys EXCEPT ![id + 1] = UpdatedKeyEntry(@, encValue)])
        /\ acl' = AfterCall(outcome, acl,
                      Grant(acl, Allow(KeyChainAddress, encValue, sender)))
        /\ keyEvents' = AfterCall(outcome, keyEvents, Emit(keyEvents,
                      [name |-> "KeyUpdated", id |-> id, owner |-> sender,
                       keyName |-> _keys[id + 1].keyName, at |-> now]))
        /\ tx' = [NoTx EXCEPT !.status = "mined", !.op = "updateKey",
                      !.sender = sender, !.id = id,
                      !.encValue = encValue, !.inputProof = inputProof,
                      !.signature = signature, !.outcome = outcome]
        /\ UNCHANGED <<_keysOf, _logs, _logsOf, logEvents, now, okAppends>>

getKeyCountByOwner(owner) == Len(_keysOf[owner])

getKeyIdsByOwner(owner) == _keysOf[owner]

\* getKeyMeta that lets id = _keys.length through
getKeyMetaOutcome_offByOne(id) ==
    IF ~(id <= Len(_keys)) THEN "Key does not exist" ELSE "ok"

\* the require of getKeyMeta
getKeyMetaOutcome(id) ==
    IF ~(id < Len(_keys)) THEN "Key does not exist" ELSE "ok"

getKeyMeta(id) ==
    [owner |-> _keys[id + 1].owner, keyName |-> _keys[id + 1].keyName,
     createdAt |-> _keys[id + 1].createdAt, updatedAt |-> _keys[id + 1].updatedAt]

\* the require of getEncryptedValue
getEncryptedValueOutcome(id) ==
    IF ~(id < Len(_keys)) THEN "Key does not exist" ELSE "ok"

getEncryptedValue(id) == _keys[id + 1].encryptedValue

getTotalKeyCount == Len(_keys)

(***************************************************************************)
(* Header.tsx: what handleStoreKey checks before it calls the contract.    *)
(***************************************************************************)
\* if (!newKeyName || ...) return; if (newKeyName.length > 100) { alert; return }
handleStoreKey_sendsName(newKeyName) ==
    /\ ~(jsLength(newKeyName) = 0)
    /\ ~(jsLength(newKeyName) > 100)

(***************************************************************************)
(* ColdChainTracker.sol                                                    *)
(***************************************************************************)
\* _verifyRecordSignature that accepts whatever address the signature recovers to
_verifyRecordSignature_anySigner(sender, location, cargo, signature) ==
    LET digest == RecordDigest(sender, location, cargo)
        hash == toEthSignedMessageHash(digest)
        signer == ECDSA_recover(hash, signature)
    IN  IF signer = "revert" THEN "ECDSAInvalidSignature"
        ELSE "ok"

_verifyRecordSignature(sender, location, cargo, signature) ==
    LET digest == RecordDigest(sender, location, cargo)
        hash == toEthSignedMessageHash(digest)
        signer == ECDSA_recover(hash, signature)
    IN  IF signer = "revert" THEN "ECDSAInvalidSignature"
        ELSE IF signer # sender THEN "Invalid record signature"
        ELSE "ok"

\* the require of recordTemperature that fails first, "ok" when none does
recordTemperatureOutcome(sender, location, cargo, encTemp, inputProof, signature) ==
    IF ~(bytesLength(location) > 0) THEN "Location cannot be empty"
    ELSE IF ~(bytesLength(cargo) > 0) THEN "Cargo description cannot be empty"
    ELSE IF _verifyRecordSignature(sender, location, cargo, signature) # "ok"
        THEN _verifyRecordSignature(sender, location, cargo, signature)
    ELSE IF ~FHE_proofOk(sender, encTemp, inputProof) THEN "InvalidCiphertextProof"
    ELSE "ok"

\* a log whose flag is set whatever the caller supplied
NewTemperatureLog_alwaysWarning(sender, location, cargo, encTemp, isWarning) ==
    [recorder |-> sender, location |-> location, cargo |-> cargo,
     encryptedTemperature |-> encTemp, timestamp |-> now, isWarning |-> TRUE]

\* the log recordTemperature pushes
NewTemperatureLog(sender, location, cargo, encTemp, isWarning) ==
    [recorder |-> sender, location |-> location, cargo |-> cargo,
     encryptedTemperature |-> encTemp, timestamp |-> now, isWarning |-> isWarning]

recordTemperature(sender, location, cargo, encTemp, inputProof, isWarning, signature) ==
    LET outcome == recordTemperatureOutcome(sender, location, cargo, encTemp,
                                            inputProof, signature)
        log == NewTemperatureLog(sender, location, cargo, encTemp, isWarning)
        id == Len(_logs)
    IN  /\ outcome = "ok" => Len(_keys) + Len(_logs) < MaxRecords
        /\ _logs' = AfterCall(outcome, _logs, Append(_logs, log))
        /\ _logsOf' = AfterCall(outcome, _logsOf, IndexPush(_logsOf, sender, id))
        /\ acl' = AfterCall(outcome, acl,
                      Grant(acl, Allow(TrackerAddress, log.encryptedTemperature, sender)))
        /\ logEvents' = AfterCall(outcome, logEvents, Emit(logEvents,
                      [name |-> "TemperatureRecorded", id |-> id,
                       recorder |-> sender, location |-> location,
                       cargo |-> cargo, timestamp |-> log.timestamp,
                       isWarning |-> isWarning]))
        /\ okAppends' = [okAppends EXCEPT !.logs = IF outcome = "ok" THEN @ + 1 ELSE @]
        /\ tx' = [NoTx EXCEPT !.status = "mined", !.op = "recordTemperature",
                      !.sender = sender, !.location = location, !.cargo = cargo,
                      !.encValue = encTemp, !.inputProof = inputProof,
                      !.isWarning = isWarning, !.signature = signature,
                      !.outcome = outcome]
        /\ UNCHANGED <<_keys, _keysOf, keyEvents, now>>

getLogCountByRecorder(recorder) == Len(_logsOf[recorder])

getLogIdsByRecorder(recorder) == _logsOf[recorder]

\* getAllLogIds with ids[i] = i + 1
getAllLogIds_fromOne == [i \in 1 .. Len(_logs) |-> i]

\* ids = new uint256[](_logs.length); ids[i] = i
getAllLogIds == [i \in 1 .. Len(_logs) |-> i - 1]

\* the require of getLogMeta
getLogMetaOutcome(id) ==
    IF ~(id < Len(_logs)) THEN "Log does not exist" ELSE "ok"

getLogMeta(id) ==
    [recorder |-> _logs[id + 1].recorder, location |-> _logs[id + 1].location,
     cargo |-> _logs[id + 1].cargo, timestamp |-> _logs[id + 1].timestamp,
     isWarning |-> _logs[id + 1].isWarning]

\* the require of getEncryptedTemperature
getEncryptedTemperatureOutcome(id) ==
    IF ~(id < Len(_logs)) THEN "Log does not exist" ELSE "ok"

getEncryptedTemperature(id) == _logs[id + 1].encryptedTemperature

getTotalLogCount == Len(_logs)

\* the loop of getStats, from index i on, with warningCount counted so far
RECURSIVE getStats_loop(_, _)
getStats_loop(i, warningCount) ==
    IF i < Len(_logs)
    THEN getStats_loop(i + 1, IF _logs[i + 1].isWarning THEN warningCount + 1
                                                       ELSE warningCount)
    ELSE warningCount

\* getStats that counts the logs without a warning
getStats_countsUnflagged ==
    [totalLogs |-> Len(_logs), warningCount |-> Len(_logs) - getStats_loop(0, 0)]

getStats == [totalLogs |-> Len(_logs), warningCount |-> getStats_loop(0, 0)]

(***************************************************************************)
(* The view functions, as calls.  A view writes nothing; what its caller   *)
(* gets is the value of the operator of its name, or the revert reason.    *)
(***************************************************************************)
IdViews == {"getKeyMeta", "getEncryptedValue", "getLogMeta", "getEncryptedTemperature"}

OwnerViews ==
    {"getKeyCountByOwner", "getKeyIdsByOwner", "getLogCountByRecorder", "getLogIdsByRecorder"}

PlainViews == {"getTotalKeyCount", "getTotalLogCount", "getAllLogIds", "getStats"}

Views == IdViews \cup OwnerViews \cup PlainViews

\* views that all check their id argument against the key count
viewOutcome_requireEverywhere(op, id) == getKeyMetaOutcome(id)

\* the require of the view op that fails, "ok" when none does or it has none
viewOutcome(op, id) ==
    IF op = "getKeyMeta" THEN getKeyMetaOutcome(id)
    ELSE IF op = "getEncryptedValue" THEN getEncryptedValueOutcome(id)
    ELSE IF op = "getLogMeta" THEN getLogMetaOutcome(id)
    ELSE IF op = "getEncryptedTemperature" THEN getEncryptedTemperatureOutcome(id)
    ELSE "ok"

\* msg.sender plays no part in a view
view(op, owner, id) ==
    /\ tx' = [NoTx EXCEPT !.status = "mined", !.op = op, !.owner = owner,
                  !.id = id, !.outcome = viewOutcome(op, id)]
    /\ UNCHANGED <<_keys, _keysOf, _logs, _logsOf, acl, keyEvents, logEvents, now,
                   okAppends, frontend>>

(***************************************************************************)
(* The web client computes with JavaScript Numbers: IEEE 754 binary64,     *)
(* every operation rounded to the nearest value of 53 significant bits,    *)
(* ties to the even one.  A Number is a sign and a magnitude bits * 2^exp, *)
(* bits being the binary digits from the most significant one, without     *)
(* leading or trailing zero; zero has no digits.  (No value of the model   *)
(* leaves the range of normal numbers.)                                    *)
(***************************************************************************)
SignificandBits == 53

Zeros(n) == [i \in 1 .. n |-> 0]

PadLeft(bits, n) == Zeros(n - Len(bits)) \o bits

\* the binary digits of the natural number n < 2^30, with leading zeros
NatBits(n) == [i \in 1 .. 30 |-> (n \div 2 ^ (30 - i)) % 2]

\* the natural number of a short digit sequence
RECURSIVE BitsNat(_)
BitsNat(bits) ==
    IF bits = <<>> THEN 0
    ELSE 2 * BitsNat(SubSeq(bits, 1, Len(bits) - 1)) + bits[Len(bits)]

\* the magnitude bits * 2^exp without leading and trailing zeros
Canon(bits, exp) ==
    LET ones == {i \in 1 .. Len(bits) : bits[i] = 1}
        first == CHOOSE i \in ones : \A j \in ones : i <= j
        last == CHOOSE i \in ones : \A j \in ones : i >= j
    IN  IF ones = {} THEN [bits |-> <<>>, exp |-> 0]
        ELSE [bits |-> SubSeq(bits, first, last), exp |-> exp + Len(bits) - last]

\* a + b, a and b of one length n: n + 1 digits.  The carry into digit i comes
\* from the nearest lower digit where a and b are both 1, through digits where
\* one of them is
SumBits(a, b) ==
    LET n == Len(a)
        carry(i) == \E j \in i + 1 .. n :
                       /\ a[j] + b[j] = 2
                       /\ \A k \in i + 1 .. j - 1 : a[k] + b[k] = 1
    IN  [i \in 1 .. n + 1 |->
            IF i = 1 THEN IF carry(0) THEN 1 ELSE 0
            ELSE (a[i - 1] + b[i - 1] + IF carry(i - 1) THEN 1 ELSE 0) % 2]

AddBits(a, b) ==
    LET n == IF Len(a) > Len(b) THEN Len(a) ELSE Len(b)
    IN  SumBits(PadLeft(a, n), PadLeft(b, n))

\* a - b, a and b of one length, a >= b.  The borrow from digit i is asked by
\* the nearest lower digit where a is 0 and b is 1, through digits where a and
\* b are equal
DifferenceBits(a, b) ==
    LET n == Len(a)
        borrow(i) == \E j \in i + 1 .. n :
                        /\ a[j] < b[j]
                        /\ \A k \in i + 1 .. j - 1 : a[k] = b[k]
    IN  [i \in 1 .. n |-> (a[i] - b[i] - (IF borrow(i) THEN 1 ELSE 0) + 2) % 2]

\* a < b, a and b of one length
LessBits(a, b) ==
    \E i \in 1 .. Len(a) : a[i] < b[i] /\ \A j \in 1 .. i - 1 : a[j] = b[j]

RECURSIVE MulBits(_, _)
MulBits(a, b) ==
    IF b = <<>> THEN <<>>
    ELSE AddBits(Append(MulBits(a, SubSeq(b, 1, Len(b) - 1)), 0),
                 IF b[Len(b)] = 1 THEN a ELSE <<>>)

\* round to nearest, ties to even: the magnitude bits * 2^exp as a Number
RoundToNearest(bits, exp) ==
    LET b == Canon(bits, 0).bits
        shift == Canon(bits, 0).exp
        extra == Len(b) - SignificandBits
    IN  IF extra <= 0 THEN Canon(bits, exp)
        ELSE LET keep == SubSeq(b, 1, SignificandBits)
                 halfOrMore == b[SignificandBits + 1] = 1
                 moreThanHalf == halfOrMore /\ extra > 1
                 up == moreThanHalf \/ (halfOrMore /\ keep[SignificandBits] = 1)
             IN  Canon(IF up THEN AddBits(keep, <<1>>) ELSE keep, exp + shift + extra)

Double(neg, magnitude) ==
    [neg |-> neg /\ magnitude.bits # <<>>, bits |-> magnitude.bits, exp |-> magnitude.exp]

\* Number(n) of a BigInt, n * 1 of an integer literal: exact below 2^53
DoubleOfInt(n) == Double(n < 0, Canon(NatBits(IF n < 0 THEN -n ELSE n), 0))

\* the magnitudes of x and y with one exponent
Aligned(x, y) ==
    LET e == IF x.exp < y.exp THEN x.exp ELSE y.exp
        a == x.bits \o Zeros(x.exp - e)
        b == y.bits \o Zeros(y.exp - e)
        n == IF Len(a) > Len(b) THEN Len(a) ELSE Len(b)
    IN  [a |-> PadLeft(a, n), b |-> PadLeft(b, n), n |-> n, exp |-> e]

\* x + y
DoubleAdd(x, y) ==
    LET al == Aligned(x, y)
    IN  IF x.neg = y.neg
        THEN Double(x.neg, RoundToNearest(SumBits(al.a, al.b), al.exp))
        ELSE IF LessBits(al.a, al.b)
        THEN Double(y.neg, RoundToNearest(DifferenceBits(al.b, al.a), al.exp))
        ELSE Double(x.neg, RoundToNearest(DifferenceBits(al.a, al.b), al.exp))

\* x - y
DoubleSub(x, y) == DoubleAdd(x, [y EXCEPT !.neg = ~y.neg /\ y.bits # <<>>])

\* x * y
DoubleMul(x, y) ==
    Double(x.neg # y.neg, RoundToNearest(MulBits(x.bits, y.bits), x.exp + y.exp))

\* 2^k modulo q, for q below 2^10
RECURSIVE PowerOfTwoMod(_, _)
PowerOfTwoMod(k, q) ==
    IF k = 0 THEN 1 % q
    ELSE LET h == PowerOfTwoMod(k \div 2, q)
         IN  (h * h * (IF k % 2 = 1 THEN 2 ELSE 1)) % q

\* what is left of r / q after its first k binary digits after the point:
\* the remainder of r * 2^k by q, 0 <= r < q
FractionRest(r, q, k) == (r * PowerOfTwoMod(k, q)) % q

\* the first k binary digits of r / q after the point
FractionBits(r, q, k) ==
    [i \in 1 .. k |-> IF 2 * FractionRest(r, q, i - 1) >= q THEN 1 ELSE 0]

\* the Number nearest to p / q, for naturals p and q > 0 with p / q >= 2^-8 or
\* p = 0: what p / q computes for two integers that are Numbers, and what
\* parseFloat returns for a decimal string of that value
DoubleQuotient(p, q) ==
    LET k == SignificandBits + 9
        digits == NatBits(p \div q) \o FractionBits(p % q, q, k)
        sticky == IF FractionRest(p % q, q, k) = 0 THEN 0 ELSE 1
    IN  Double(FALSE, RoundToNearest(Append(digits, sticky), -(k + 1)))

\* Math.round(x): the integer nearest to x, a tie going up
MathRound(x) ==
    LET k == -x.exp
        whole == IF k <= 0 THEN BitsNat(x.bits \o Zeros(-k))
                 ELSE IF Len(x.bits) <= k THEN 0
                 ELSE BitsNat(SubSeq(x.bits, 1, Len(x.bits) - k))
        \* the part after the point is 1/2 or more, is more than 1/2
        half == k > 0 /\ Len(x.bits) >= k /\ x.bits[Len(x.bits) - k + 1] = 1
        over == half /\ k > 1
    IN  IF x.neg THEN -(whole + IF over THEN 1 ELSE 0)
        ELSE whole + IF half THEN 1 ELSE 0

(***************************************************************************)
(* useColdChainTracker: a temperature is encrypted as the integer          *)
(* (t + 100) * 10 and shown after decryption as value / 10 - 100.          *)
(***************************************************************************)
TEMP_OFFSET == 100            \* recordTemperature
decryptTemperature_TEMP_OFFSET == 100

\* parseFloat of the decimal string of tenths / 10 (handleManualUpload)
parseFloat(tenths) ==
    LET m == DoubleQuotient(IF tenths < 0 THEN -tenths ELSE tenths, 10)
    IN  Double(tenths < 0, m)

\* recordTemperature: BigInt(Math.round((temperature + TEMP_OFFSET) * 10))
tempValue(temperature) ==
    MathRound(DoubleMul(DoubleAdd(temperature, DoubleOfInt(TEMP_OFFSET)), DoubleOfInt(10)))

\* decryptTemperature: (Number(clearValue) / 10) - TEMP_OFFSET
tempCelsius(clearValue) ==
    DoubleSub(DoubleQuotient(clearValue, 10), DoubleOfInt(decryptTemperature_TEMP_OFFSET))

\* a temperature on its way from the upload form to the timeline: the tenths
\* of a degree typed, the Number parsed, the integer encrypted and the Number
\* shown after decryption
NoReading ==
    [stage |-> "none", tenths |-> 0, temperature |-> DoubleOfInt(0), tempValue |-> 0,
     tempCelsius |-> DoubleOfInt(0)]

(***************************************************************************)
(* The hooks useColdChainTracker and useFrostKeyChain.  An invocation of   *)
(* an async function of a hook runs from one await to the next in one      *)
(* step; what it awaits settles in a step of its own, between which the    *)
(* ledgers and other invocations move.  A read is served by the node from  *)
(* the state of the ledger at that moment, or fails on the way.            *)
(***************************************************************************)
MaxCalls == 2   \* invocations of hook functions in one behaviour

CallIds == 1 .. MaxCalls

\* an invocation: the function, the await it stands at ("none" before the
\* call, "returned" after it), whether the awaited promise has settled, the
\* rejection caught (if any), whether its own promise rejected, the arguments
\* (an id or the number of the value, the flag, the name) and the locals ids,
\* meta, loaded, the handle, the decryption signature and the clear value
NoCall ==
    [fn |-> "none", pc |-> "none", settled |-> FALSE, error |-> "", thrown |-> FALSE,
     arg |-> 0, isWarning |-> FALSE, keyName |-> EmptyStr, ids |-> <<>>,
     meta |-> <<>>, loaded |-> <<>>, handle |-> <<>>, sig |-> "none", clear |-> <<>>]

\* useState of useColdChainTracker
ColdChainTrackerInit ==
    [logs |-> <<>>, isLoading |-> FALSE, isRecording |-> FALSE, isDecrypting |-> FALSE]

\* useState of useFrostKeyChain
FrostKeyChainInit ==
    [keys |-> <<>>, isLoading |-> FALSE, isStoring |-> FALSE, isDecrypting |-> FALSE]

\* Number(n) of a BigInt the contract returned
Number(n) == MathRound(DoubleOfInt(n))

\* the entry loadLogs pushes for id; decryptedTemperature is not set
TemperatureLog(id, meta) ==
    [id |-> Number(id), recorder |-> meta.recorder, location |-> meta.location,
     cargo |-> meta.cargo, timestamp |-> Number(meta.timestamp),
     isWarning |-> meta.isWarning, decryptedTemperature |-> <<>>]

\* the entry loadKeys pushes for id; decryptedValue is not set
KeyEntry(id, meta) ==
    [id |-> Number(id), owner |-> meta.owner, keyName |-> meta.keyName,
     createdAt |-> Number(meta.createdAt), updatedAt |-> Number(meta.updatedAt),
     decryptedValue |-> <<>>]

\* ethersSigner.address of the browser
SignerAddress == "alice"

\* the awaits that are reads of a contract
ReadPoints ==
    {"getAllLogIds", "getLogMeta", "getKeyIdsByOwner", "getKeyMeta",
     "getEncryptedTemperature", "getEncryptedValue"}

\* a loop that asks for the position in ids instead of the id
MetaId_position(call) == Len(call.loaded) + 1

\* the id the invocation asks the metadata of
MetaId(call) == call.ids[Len(call.loaded) + 1]

\* the read the invocation awaits, served from the ledger as it is now
Served(call) ==
    IF call.pc = "getAllLogIds" THEN [call EXCEPT !.settled = TRUE, !.ids = getAllLogIds]
    ELSE IF call.pc = "getKeyIdsByOwner"
    THEN [call EXCEPT !.settled = TRUE, !.ids = getKeyIdsByOwner(SignerAddress)]
    ELSE IF call.pc = "getLogMeta"
    THEN IF getLogMetaOutcome(MetaId(call)) # "ok"
         THEN [call EXCEPT !.settled = TRUE, !.error = getLogMetaOutcome(MetaId(call))]
         ELSE [call EXCEPT !.settled = TRUE, !.meta = <<getLogMeta(MetaId(call))>>]
    ELSE IF call.pc = "getKeyMeta"
    THEN IF getKeyMetaOutcome(MetaId(call)) # "ok"
         THEN [call EXCEPT !.settled = TRUE, !.error = getKeyMetaOutcome(MetaId(call))]
         ELSE [call EXCEPT !.settled = TRUE, !.meta = <<getKeyMeta(MetaId(call))>>]
    ELSE IF call.pc = "getEncryptedTemperature"
    THEN IF getEncryptedTemperatureOutcome(call.arg) # "ok"
         THEN [call EXCEPT !.settled = TRUE,
                           !.error = getEncryptedTemperatureOutcome(call.arg)]
         ELSE [call EXCEPT !.settled = TRUE, !.handle = <<getEncryptedTemperature(call.arg)>>]
    ELSE IF getEncryptedValueOutcome(call.arg) # "ok"
         THEN [call EXCEPT !.settled = TRUE, !.error = getEncryptedValueOutcome(call.arg)]
         ELSE [call EXCEPT !.settled = TRUE, !.handle = <<getEncryptedValue(call.arg)>>]

\* the provider answers the eth_call an invocation awaits, or the call fails
eth_call(c) ==
    /\ calls[c].pc \in ReadPoints /\ ~calls[c].settled
    /\ \E answered \in BOOLEAN :
          calls' = [calls EXCEPT ![c] =
                       IF answered THEN Served(@)
                       ELSE [@ EXCEPT !.settled = TRUE, !.error = "network error"]]
    /\ UNCHANGED <<chain, reading, coldChainTracker, frostKeyChain, header>>

\* loadLogs up to its first await; ready: provider and contract address are set
loadLogs_call(c, ready) ==
    /\ calls[c].pc = "none"
    /\ IF ~ready
       THEN /\ calls' = [calls EXCEPT ![c] = [@ EXCEPT !.fn = "loadLogs", !.pc = "returned"]]
            /\ UNCHANGED coldChainTracker
       ELSE /\ coldChainTracker' = [coldChainTracker EXCEPT !.isLoading = TRUE]
            /\ calls' = [calls EXCEPT ![c] =
                            [@ EXCEPT !.fn = "loadLogs", !.pc = "getAllLogIds"]]
    /\ UNCHANGED <<chain, reading, frostKeyChain, header>>

\* loadLogs from an await that settled to the next one, or to its end: the
\* loop over ids, setLogs(loaded), catch and finally
loadLogs_resume(c) ==
    /\ calls[c].fn = "loadLogs" /\ calls[c].settled
    /\ LET call == calls[c]
           loaded == IF call.pc = "getLogMeta" /\ call.error = ""
                     THEN Append(call.loaded, TemperatureLog(MetaId(call), call.meta[1]))
                     ELSE call.loaded
       IN  IF call.error # ""
           THEN /\ coldChainTracker' = [coldChainTracker EXCEPT !.isLoading = FALSE]
                /\ calls' = [calls EXCEPT ![c] =
                                [@ EXCEPT !.pc = "returned", !.settled = FALSE]]
           ELSE IF Len(loaded) < Len(call.ids)
           THEN /\ calls' = [calls EXCEPT ![c] =
                                [@ EXCEPT !.pc = "getLogMeta", !.settled = FALSE,
                                          !.meta = <<>>, !.loaded = loaded]]
                /\ UNCHANGED coldChainTracker
           ELSE /\ coldChainTracker' =
                       [coldChainTracker EXCEPT !.logs = loaded, !.isLoading = FALSE]
                /\ calls' = [calls EXCEPT ![c] =
                                [@ EXCEPT !.pc = "returned", !.settled = FALSE,
                                          !.meta = <<>>, !.loaded = loaded]]
    /\ UNCHANGED <<chain, reading, frostKeyChain, header>>

\* loadKeys up to its first await; ready: provider and contract address are
\* set; owner: the signer has an address
loadKeys_call(c, ready, owner) ==
    /\ calls[c].pc = "none"
    /\ IF ~ready \/ ~owner
       THEN /\ calls' = [calls EXCEPT ![c] = [@ EXCEPT !.fn = "loadKeys", !.pc = "returned"]]
            /\ UNCHANGED frostKeyChain
       ELSE /\ frostKeyChain' = [frostKeyChain EXCEPT !.isLoading = TRUE]
            /\ calls' = [calls EXCEPT ![c] =
                            [@ EXCEPT !.fn = "loadKeys", !.pc = "getKeyIdsByOwner"]]
    /\ UNCHANGED <<chain, reading, coldChainTracker, header>>

\* loadKeys from an await that settled to the next one, or to its end
loadKeys_resume(c) ==
    /\ calls[c].fn = "loadKeys" /\ calls[c].settled
    /\ LET call == calls[c]
           loaded == IF call.pc = "getKeyMeta" /\ call.error = ""
                     THEN Append(call.loaded, KeyEntry(MetaId(call), call.meta[1]))
                     ELSE call.loaded
       IN  IF call.error # ""
           THEN /\ frostKeyChain' = [frostKeyChain EXCEPT !.isLoading = FALSE]
                /\ calls' = [calls EXCEPT ![c] =
                                [@ EXCEPT !.pc = "returned", !.settled = FALSE]]
           ELSE IF Len(loaded) < Len(call.ids)
           THEN /\ calls' = [calls EXCEPT ![c] =
                                [@ EXCEPT !.pc = "getKeyMeta", !.settled = FALSE,
                                          !.meta = <<>>, !.loaded = loaded]]
                /\ UNCHANGED frostKeyChain
           ELSE /\ frostKeyChain' = [frostKeyChain EXCEPT !.keys = loaded, !.isLoading = FALSE]
                /\ calls' = [calls EXCEPT ![c] =
                                [@ EXCEPT !.pc = "returned", !.settled = FALSE,
                                          !.meta = <<>>, !.loaded = loaded]]
    /\ UNCHANGED <<chain, reading, coldChainTracker, header>>

\* the temperature, in tenths of a degree, the n-th ciphertext of a user holds
\* under ColdChainTracker: 0.0, -17.9, ...
ReadingTenths(n) == (1 - n) * 179

\* what userDecrypt returns for a handle of ColdChainTracker: the integer that
\* recordTemperature encrypted
ClearTemperature(handle) == tempValue(parseFloat(ReadingTenths(handle.n)))

\* what userDecrypt returns for a handle of FrostKeyChain: 0, 1, ...
ClearKeyValue(handle) == handle.n - 1

\* the invocation after what it awaits settled as outcome: "ok", "null" (no
\* decryption signature could be built) or "reject"
Settled(call, outcome) ==
    IF outcome = "reject"
    THEN [call EXCEPT !.settled = TRUE, !.error = call.pc \o " failed"]
    ELSE IF call.pc = "encrypt"
    THEN [call EXCEPT !.settled = TRUE, !.handle = <<Handle(SignerAddress, call.arg)>>]
    ELSE IF call.pc = "signMessage" THEN [call EXCEPT !.settled = TRUE]
    ELSE IF call.pc = "FhevmDecryptionSignature"
    THEN [call EXCEPT !.settled = TRUE, !.sig = IF outcome = "null" THEN "null" ELSE "built"]
    ELSE IF <<call.handle[1], SignerAddress>> \notin acl
    THEN [call EXCEPT !.settled = TRUE, !.error = "userDecrypt failed"]
    ELSE [call EXCEPT !.settled = TRUE,
                      !.clear = <<IF call.fn = "decryptTemperature"
                                  THEN ClearTemperature(call.handle[1])
                                  ELSE ClearKeyValue(call.handle[1])>>]

\* an await of the browser settles: encryption, the wallet's signature, the
\* decryption signature or the decryption by the relayer
settle(c) ==
    /\ calls[c].pc \in {"encrypt", "signMessage", "FhevmDecryptionSignature", "userDecrypt"}
    /\ ~calls[c].settled
    /\ \E outcome \in {"ok", "null", "reject"} :
          /\ outcome = "null" => calls[c].pc = "FhevmDecryptionSignature"
          /\ calls' = [calls EXCEPT ![c] = Settled(@, outcome)]
    /\ UNCHANGED <<chain, reading, coldChainTracker, frostKeyChain, header>>

\* a return that leaves the busy flag as it is
finally_skipped(state, flag) == state

\* finally { setIsRecording(false) } and its like
finally(state, flag) == [state EXCEPT ![flag] = FALSE]

\* the invocation at its return; thrown: its promise rejects
Returned(call, thrown) == [call EXCEPT !.pc = "returned", !.settled = FALSE, !.thrown = thrown]

\* the invocation at its next await
Awaiting(call, pc) == [call EXCEPT !.pc = pc, !.settled = FALSE]

\* a load called by the invocation in the slot before: up to its first await
Nested(call, fn, ready) ==
    IF ~ready THEN [call EXCEPT !.fn = fn, !.pc = "returned"]
    ELSE [call EXCEPT !.fn = fn,
                      !.pc = IF fn = "loadLogs" THEN "getAllLogIds" ELSE "getKeyIdsByOwner"]

\* what the invocation awaits has settled; an awaited load has returned
Resumable(c) ==
    \/ calls[c].settled
    \/ calls[c].pc \in {"loadLogs", "loadKeys"} /\ calls[c + 1].pc = "returned"

\* recordTemperature of the hook up to its first await; ready: instance,
\* signer and contract address are set; n: the reading typed
recordTemperature_call(c, ready, n, isWarning) ==
    /\ calls[c].pc = "none"
    /\ IF ~ready
       THEN /\ calls' = [calls EXCEPT ![c] =
                            Returned([@ EXCEPT !.fn = "recordTemperature"], FALSE)]
            /\ UNCHANGED coldChainTracker
       ELSE /\ coldChainTracker' = [coldChainTracker EXCEPT !.isRecording = TRUE]
            /\ calls' = [calls EXCEPT ![c] =
                            [@ EXCEPT !.fn = "recordTemperature", !.pc = "encrypt",
                                      !.arg = n, !.isWarning = isWarning]]
    /\ UNCHANGED <<chain, reading, frostKeyChain, header>>

\* contract.recordTemperature(...) and tx.wait(): the transaction is mined,
\* or it does not reach the chain
recordTemperature_send(c) ==
    /\ calls[c].fn = "recordTemperature" /\ calls[c].pc = "transaction"
    /\ ~calls[c].settled
    /\ \/ /\ recordTemperature(SignerAddress, Str(1, 0, 0), Str(3, 0, 0), calls[c].handle[1],
                               "proof", calls[c].isWarning,
                               Sign(SignerAddress,
                                    RecordDigest(SignerAddress, Str(1, 0, 0), Str(3, 0, 0))))
          /\ calls' = [calls EXCEPT ![c] =
                          [@ EXCEPT !.settled = TRUE,
                                    !.error = IF tx'.outcome = "ok" THEN "" ELSE tx'.outcome]]
       \/ /\ calls' = [calls EXCEPT ![c] =
                          [@ EXCEPT !.settled = TRUE, !.error = "network error"]]
          /\ UNCHANGED chain
    /\ UNCHANGED <<reading, coldChainTracker, frostKeyChain, header>>

\* recordTemperature from an await that settled to the next one or to its
\* end; the catch rethrows; ready: the provider of loadLogs is set
recordTemperature_resume(c, ready) ==
    /\ calls[c].fn = "recordTemperature" /\ Resumable(c)
    /\ LET call == calls[c]
       IN  IF call.error # ""
           THEN /\ coldChainTracker' = finally(coldChainTracker, "isRecording")
                /\ calls' = [calls EXCEPT ![c] = Returned(@, TRUE)]
           ELSE IF call.pc = "encrypt"
           THEN /\ calls' = [calls EXCEPT ![c] = Awaiting(@, "signMessage")]
                /\ UNCHANGED coldChainTracker
           ELSE IF call.pc = "signMessage"
           THEN /\ calls' = [calls EXCEPT ![c] = Awaiting(@, "transaction")]
                /\ UNCHANGED coldChainTracker
           ELSE IF call.pc = "transaction"
           THEN /\ calls[c + 1].pc = "none"
                /\ calls' = [calls EXCEPT ![c] = Awaiting(@, "loadLogs"),
                                          ![c + 1] = Nested(@, "loadLogs", ready)]
                /\ coldChainTracker' =
                       [coldChainTracker EXCEPT !.isLoading = IF ready THEN TRUE ELSE @]
           ELSE /\ coldChainTracker' = finally(coldChainTracker, "isRecording")
                /\ calls' = [calls EXCEPT ![c] = Returned(@, FALSE)]
    /\ UNCHANGED <<chain, reading, frostKeyChain, header>>

\* storeKey of the hook up to its first await; value: the BigInt to encrypt.
\* The caller says what becomes of the form
storeKey_call(c, ready, keyName, value) ==
    /\ calls[c].pc = "none"
    /\ IF ~ready
       THEN /\ calls' = [calls EXCEPT ![c] = Returned([@ EXCEPT !.fn = "storeKey"], FALSE)]
            /\ UNCHANGED frostKeyChain
       ELSE /\ frostKeyChain' = [frostKeyChain EXCEPT !.isStoring = TRUE]
            /\ calls' = [calls EXCEPT ![c] =
                            [@ EXCEPT !.fn = "storeKey", !.pc = "encrypt",
                                      !.arg = value + 1, !.keyName = keyName]]
    /\ UNCHANGED <<chain, reading, coldChainTracker>>

\* contract.storeKey(...) and tx.wait()
storeKey_send(c) ==
    /\ calls[c].fn = "storeKey" /\ calls[c].pc = "transaction"
    /\ ~calls[c].settled
    /\ \/ /\ storeKey(SignerAddress, calls[c].keyName, calls[c].handle[1], "proof",
                      Sign(SignerAddress, StoreDigest(SignerAddress, calls[c].keyName)))
          /\ calls' = [calls EXCEPT ![c] =
                          [@ EXCEPT !.settled = TRUE,
                                    !.error = IF tx'.outcome = "ok" THEN "" ELSE tx'.outcome]]
       \/ /\ calls' = [calls EXCEPT ![c] =
                          [@ EXCEPT !.settled = TRUE, !.error = "network error"]]
          /\ UNCHANGED chain
    /\ UNCHANGED <<reading, coldChainTracker, frostKeyChain, header>>

\* storeKey from an await that settled to the next one or to its end; the
\* catch sets the message and does not rethrow
storeKey_resume(c, ready, owner) ==
    /\ calls[c].fn = "storeKey" /\ Resumable(c)
    /\ LET call == calls[c]
       IN  IF call.error # ""
           THEN /\ frostKeyChain' = finally(frostKeyChain, "isStoring")
                /\ calls' = [calls EXCEPT ![c] = Returned(@, FALSE)]
           ELSE IF call.pc = "encrypt"
           THEN /\ calls' = [calls EXCEPT ![c] = Awaiting(@, "signMessage")]
                /\ UNCHANGED frostKeyChain
           ELSE IF call.pc = "signMessage"
           THEN /\ calls' = [calls EXCEPT ![c] = Awaiting(@, "transaction")]
                /\ UNCHANGED frostKeyChain
           ELSE IF call.pc = "transaction"
           THEN /\ calls[c + 1].pc = "none"
                /\ calls' = [calls EXCEPT ![c] = Awaiting(@, "loadKeys"),
                                          ![c + 1] = Nested(@, "loadKeys", ready /\ owner)]
                /\ frostKeyChain' =
                       [frostKeyChain EXCEPT !.isLoading = IF ready /\ owner THEN TRUE ELSE @]
           ELSE /\ frostKeyChain' = finally(frostKeyChain, "isStoring")
                /\ calls' = [calls EXCEPT ![c] = Returned(@, FALSE)]
    /\ UNCHANGED <<chain, reading, coldChainTracker, header>>

\* setLogs(prev => prev.map(...)): the entry of logId gets the temperature
WithTemperature(logs, logId, celsius) ==
    [i \in 1 .. Len(logs) |->
        IF logs[i].id = logId THEN [logs[i] EXCEPT !.decryptedTemperature = <<celsius>>]
        ELSE logs[i]]

\* setKeys(prev => prev.map(...)): the entry of keyId gets BigInt(clear)
WithValue(keys, keyId, clear) ==
    [i \in 1 .. Len(keys) |->
        IF keys[i].id = keyId THEN [keys[i] EXCEPT !.decryptedValue = <<clear>>]
        ELSE keys[i]]

\* decryptTemperature up to its first await
decryptTemperature_call(c, ready, logId) ==
    /\ calls[c].pc = "none"
    /\ IF ~ready
       THEN /\ calls' = [calls EXCEPT ![c] =
                            Returned([@ EXCEPT !.fn = "decryptTemperature"], FALSE)]
            /\ UNCHANGED coldChainTracker
       ELSE /\ coldChainTracker' = [coldChainTracker EXCEPT !.isDecrypting = TRUE]
            /\ calls' = [calls EXCEPT ![c] =
                            [@ EXCEPT !.fn = "decryptTemperature",
                                      !.pc = "FhevmDecryptionSignature", !.arg = logId]]
    /\ UNCHANGED <<chain, reading, frostKeyChain, header>>

\* decryptTemperature from an await that settled to the next one or to its
\* end; the catch rethrows; without a decryption signature it returns
decryptTemperature_resume(c) ==
    /\ calls[c].fn = "decryptTemperature" /\ calls[c].settled
    /\ LET call == calls[c]
       IN  IF call.error # ""
           THEN /\ coldChainTracker' = finally(coldChainTracker, "isDecrypting")
                /\ calls' = [calls EXCEPT ![c] = Returned(@, TRUE)]
           ELSE IF call.pc = "FhevmDecryptionSignature" /\ call.sig = "null"
           THEN /\ coldChainTracker' = finally(coldChainTracker, "isDecrypting")
                /\ calls' = [calls EXCEPT ![c] = Returned(@, FALSE)]
           ELSE IF call.pc = "FhevmDecryptionSignature"
           THEN /\ calls' = [calls EXCEPT ![c] = Awaiting(@, "getEncryptedTemperature")]
                /\ UNCHANGED coldChainTracker
           ELSE IF call.pc = "getEncryptedTemperature"
           THEN /\ calls' = [calls EXCEPT ![c] = Awaiting(@, "userDecrypt")]
                /\ UNCHANGED coldChainTracker
           ELSE /\ coldChainTracker' =
                       finally([coldChainTracker EXCEPT
                                   !.logs = WithTemperature(@, call.arg,
                                                            tempCelsius(call.clear[1]))],
                               "isDecrypting")
                /\ calls' = [calls EXCEPT ![c] = Returned(@, FALSE)]
    /\ UNCHANGED <<chain, reading, frostKeyChain, header>>

\* decryptKey up to its first await
decryptKey_call(c, ready, keyId) ==
    /\ calls[c].pc = "none"
    /\ IF ~ready
       THEN /\ calls' = [calls EXCEPT ![c] = Returned([@ EXCEPT !.fn = "decryptKey"], FALSE)]
            /\ UNCHANGED frostKeyChain
       ELSE /\ frostKeyChain' = [frostKeyChain EXCEPT !.isDecrypting = TRUE]
            /\ calls' = [calls EXCEPT ![c] =
                            [@ EXCEPT !.fn = "decryptKey",
                                      !.pc = "FhevmDecryptionSignature", !.arg = keyId]]
    /\ UNCHANGED <<chain, reading, coldChainTracker, header>>

\* decryptKey from an await that settled to the next one or to its end; the
\* catch sets the message and does not rethrow
decryptKey_resume(c) ==
    /\ calls[c].fn = "decryptKey" /\ calls[c].settled
    /\ LET call == calls[c]
       IN  IF call.error # "" \/ (call.pc = "FhevmDecryptionSignature" /\ call.sig = "null")
           THEN /\ frostKeyChain' = finally(frostKeyChain, "isDecrypting")
                /\ calls' = [calls EXCEPT ![c] = Returned(@, FALSE)]
           ELSE IF call.pc = "FhevmDecryptionSignature"
           THEN /\ calls' = [calls EXCEPT ![c] = Awaiting(@, "getEncryptedValue")]
                /\ UNCHANGED frostKeyChain
           ELSE IF call.pc = "getEncryptedValue"
           THEN /\ calls' = [calls EXCEPT ![c] = Awaiting(@, "userDecrypt")]
                /\ UNCHANGED frostKeyChain
           ELSE /\ frostKeyChain' =
                       finally([frostKeyChain EXCEPT
                                   !.keys = WithValue(@, call.arg, call.clear[1])],
                               "isDecrypting")
                /\ calls' = [calls EXCEPT ![c] = Returned(@, FALSE)]
    /\ UNCHANGED <<chain, reading, coldChainTracker, header>>

\* the add-key form of the header: the name typed, the value typed (in
\* tenths: <<15>> is "1.5", <<>> is ""), the alerts shown, and whether
\* handleStoreKey stands at its await
HeaderInit ==
    [newKeyName |-> EmptyStr, newKeyValue |-> <<>>, alerts |-> <<>>, pending |-> FALSE]

\* alerts the session shows at most
MaxAlerts == 1

\* BigInt(text) throws a SyntaxError unless text is an integer literal
BigIntThrows(text) == text[1] % 10 # 0

BigInt(text) == text[1] \div 10

\* onChange of the two inputs
setNewKeyName(keyName) ==
    /\ header.newKeyName # keyName
    /\ header' = [header EXCEPT !.newKeyName = keyName]
    /\ UNCHANGED <<chain, reading, coldChainTracker, frostKeyChain, calls>>

setNewKeyValue(text) ==
    /\ header.newKeyValue # text
    /\ header' = [header EXCEPT !.newKeyValue = text]
    /\ UNCHANGED <<chain, reading, coldChainTracker, frostKeyChain, calls>>

\* canStore of the hook; ready: instance, signer and contract address are set
canStore(ready) == ~frostKeyChain.isStoring /\ ~frostKeyChain.isLoading /\ ready

\* handleStoreKey up to its await, or to its end when it does not get there
handleStoreKey_call(c, ready) ==
    /\ ~header.pending /\ Len(header.alerts) < MaxAlerts
    /\ IF header.newKeyName = EmptyStr \/ header.newKeyValue = <<>>
       THEN UNCHANGED vars
       ELSE IF jsLength(header.newKeyName) > 100
       THEN /\ header' = [header EXCEPT !.alerts =
                              Append(@, "Key name must be 100 characters or less")]
            /\ UNCHANGED <<chain, reading, coldChainTracker, frostKeyChain, calls>>
       ELSE IF BigIntThrows(header.newKeyValue)
       THEN /\ header' = [header EXCEPT !.alerts = Append(@, "Failed to store key")]
            /\ UNCHANGED <<chain, reading, coldChainTracker, frostKeyChain, calls>>
       ELSE /\ storeKey_call(c, ready, header.newKeyName, BigInt(header.newKeyValue))
            /\ header' = [header EXCEPT !.pending = TRUE]

\* handleStoreKey after the promise of storeKey settled
handleStoreKey_resume(c) ==
    /\ header.pending
    /\ calls[c].fn = "storeKey" /\ calls[c].pc = "returned"
    /\ header' = IF calls[c].thrown
                 THEN [header EXCEPT !.pending = FALSE,
                                     !.alerts = Append(@, "Failed to store key")]
                 ELSE [header EXCEPT !.pending = FALSE, !.newKeyName = EmptyStr,
                                     !.newKeyValue = <<>>]
    /\ UNCHANGED <<chain, reading, coldChainTracker, frostKeyChain, calls>>

\* a truthiness test of a number: 0 is falsy
Truthy(x) == x.bits # <<>>

\* log.decryptedTemperature ? ... : ... of the timeline: the value is shown
\* and "View Data" is off
TemperatureTimeline_decrypted(log) ==
    log.decryptedTemperature # <<>> /\ Truthy(log.decryptedTemperature[1])

\* the logs the average of the dashboard is taken over
avgTemperature_logs(logs) ==
    SelectSeq(logs, LAMBDA log :
        log.decryptedTemperature # <<>> /\ Truthy(log.decryptedTemperature[1]))

\* key.decryptedValue ? ... : "Encrypted" of the key list, and the off state
\* of its Decrypt button: 0n is falsy
Header_decrypted(key) == key.decryptedValue # <<>> /\ key.decryptedValue[1] # 0

\* the web client before anything is typed or called
FrontendInit ==
    /\ reading = NoReading
    /\ coldChainTracker = ColdChainTrackerInit
    /\ frostKeyChain = FrostKeyChainInit
    /\ calls = [c \in CallIds |-> NoCall]
    /\ header = HeaderInit

(***************************************************************************)
(* The clients and the host.  A sender reads the receipt of its            *)
(* transaction (tx.wait()); a new block carries a later timestamp.         *)
(***************************************************************************)
TxWait ==
    /\ tx.status = "mined"
    /\ tx' = NoTx
    /\ UNCHANGED <<_keys, _keysOf, _logs, _logsOf, acl, keyEvents, logEvents, now,
                   okAppends, frontend>>

AdvanceTime ==
    /\ now < MaxTime
    /\ now' = now + 1
    /\ UNCHANGED <<_keys, _keysOf, _logs, _logsOf, acl, keyEvents, logEvents,
                   okAppends, tx, frontend>>

Init ==
    /\ _keys = <<>>
    /\ _keysOf = [u \in Addresses |-> <<>>]
    /\ _logs = <<>>
    /\ _logsOf = [u \in Addresses |-> <<>>]
    /\ acl = {}
    /\ keyEvents = <<>>
    /\ logEvents = <<>>
    /\ now = 1
    /\ okAppends = [keys |-> 0, logs |-> 0]
    /\ tx = NoTx
    /\ FrontendInit

\* a sender sends its next transaction once it has read the receipt of the last
Idle == tx.status = "none"

CallStoreKey ==
    /\ Idle
    /\ \E sender \in Users, keyName \in KeyNames :
         \E input \in EncryptedInputs(sender),
            signature \in SignaturesFor(sender, StoreDigest(sender, keyName),
                {StoreDigest(sender, Str(1, 0, 0)), StoreDigest(sender, Str(100, 0, 0)),
                 UpdateDigest(sender, 0)}) :
            storeKey(sender, keyName, input.handle, input.inputProof, signature)
    /\ UNCHANGED frontend

CallUpdateKey ==
    /\ Idle
    /\ \E sender \in Users, id \in Ids :
         \E input \in EncryptedInputs(sender),
            signature \in SignaturesFor(sender, UpdateDigest(sender, id),
                {UpdateDigest(sender, 0), UpdateDigest(sender, 1),
                 StoreDigest(sender, Str(1, 0, 0))}) :
            updateKey(sender, id, input.handle, input.inputProof, signature)
    /\ UNCHANGED frontend

CallRecordTemperature ==
    /\ Idle
    /\ \E sender \in Users, meta \in LogMetas, isWarning \in BOOLEAN :
         \E input \in EncryptedInputs(sender),
            signature \in SignaturesFor(sender, RecordDigest(sender, meta[1], meta[2]),
                {RecordDigest(sender, Str(1, 0, 0), Str(3, 0, 0)),
                 RecordDigest(sender, Str(2, 0, 0), Str(3, 0, 0)),
                 StoreDigest(sender, Str(1, 0, 0))}) :
            recordTemperature(sender, meta[1], meta[2], input.handle, input.inputProof,
                              isWarning, signature)
    /\ UNCHANGED frontend

\* a read: an id lookup, an owner lookup or a lookup without arguments
CallView ==
    /\ Idle
    /\ \/ \E op \in IdViews, id \in Ids : view(op, "nobody", id)
       \/ \E op \in OwnerViews, owner \in Addresses : view(op, owner, 0)
       \/ \E op \in PlainViews : view(op, "nobody", 0)

Next ==
    \/ CallStoreKey
    \/ CallUpdateKey
    \/ CallRecordTemperature
    \/ CallView
    \/ TxWait
    \/ AdvanceTime

Spec == Init /\ [][Next]_vars

(***************************************************************************)
(* What the callers of the ledgers can observe.                            *)
(***************************************************************************)
\* the call just mined
Called(op) == tx.status = "mined" /\ tx.op = op

\* ids 0 .. n-1 in order
DenseIds(n) == [i \in 1 .. n |-> i - 1]

\* the ids of the records of owner, in the order of their appending
IdsOwnedBy(owners, owner) ==
    SelectSeq(DenseIds(Len(owners)), LAMBDA id : owners[id + 1] = owner)

KeyOwners == [i \in 1 .. Len(_keys) |-> _keys[i].owner]

LogRecorders == [i \in 1 .. Len(_logs) |-> _logs[i].recorder]

\* the ids the KeyStored events carry, in emission order
KeyStoredIds ==
    LET stored == SelectSeq(keyEvents, LAMBDA e : e.name = "KeyStored")
    IN  [i \in 1 .. Len(stored) |-> stored[i].id]

\* C1: after any calls of which N appends succeeded, the total count is N and
\* the ids are exactly 0 .. N-1, handed out in increasing order (the events
\* carry them in that order); getAllLogIds returns them all.
C1_CountAndIdsDense ==
    /\ getTotalLogCount = okAppends.logs
    /\ getTotalKeyCount = okAppends.keys
    /\ getAllLogIds = DenseIds(okAppends.logs)
    /\ [i \in 1 .. Len(logEvents) |-> logEvents[i].id] = DenseIds(okAppends.logs)
    /\ KeyStoredIds = DenseIds(okAppends.keys)

\* two appends succeeded and a failed call followed
C1_Witness ==
    /\ okAppends.logs = 2
    /\ getAllLogIds = <<0, 1>>
    /\ Called("recordTemperature") /\ tx.outcome # "ok"

\* C2: the owner index of every owner is exactly the ids of the records that
\* owner owns, in appending order, and the count by owner is its length.
C2_OwnerIndexExact ==
    \A owner \in Users :
        /\ getKeyIdsByOwner(owner) = IdsOwnedBy(KeyOwners, owner)
        /\ getKeyCountByOwner(owner) = Len(IdsOwnedBy(KeyOwners, owner))
        /\ getLogIdsByRecorder(owner) = IdsOwnedBy(LogRecorders, owner)
        /\ getLogCountByRecorder(owner) = Len(IdsOwnedBy(LogRecorders, owner))

\* alice owns key 0 and bob key 1
C2_Witness ==
    /\ getKeyIdsByOwner("alice") = <<0>>
    /\ getKeyIdsByOwner("bob") = <<1>>
    /\ Called("updateKey")

(***************************************************************************)
(* Calls and their arguments.                                              *)
(***************************************************************************)
\* this step mined a call
CallStep == tx.status = "none" /\ tx'.status = "mined"

Appends == {"storeKey", "recordTemperature"}

Mutating == {"storeKey", "updateKey", "recordTemperature"}

\* the digest the contract computes for the call t
CallDigest(t) ==
    IF t.op = "storeKey" THEN StoreDigest(t.sender, t.keyName)
    ELSE IF t.op = "updateKey" THEN UpdateDigest(t.sender, t.id)
    ELSE RecordDigest(t.sender, t.location, t.cargo)

\* the signature of t was made by its sender for exactly this call
SignedBySender(t) == t.signature = Sign(t.sender, CallDigest(t))

\* the signature of t recovers to an address that is not the sender
RecoversToOther(t) ==
    ECDSA_recover(toEthSignedMessageHash(CallDigest(t)), t.signature) \notin {"revert", t.sender}

\* the proof of t is the one made for its ciphertext and sender
ProofValid(t) == t.inputProof = "proof" /\ t.encValue.user = t.sender

\* the plaintext metadata of the append t passes validation
MetadataValid(t) ==
    IF t.op = "storeKey" THEN bytesLength(t.keyName) \in 1 .. 100
    ELSE t.location # EmptyStr /\ t.cargo # EmptyStr

ValidationErrors ==
    {"Key name cannot be empty", "Key name too long", "Location cannot be empty",
     "Cargo description cannot be empty"}

AuthorizationError(op) ==
    IF op = "storeKey" THEN "Invalid store signature"
    ELSE IF op = "updateKey" THEN "Invalid update signature"
    ELSE "Invalid record signature"

IndexesUnchanged == UNCHANGED <<_keysOf, _logsOf>>

CountsUnchanged ==
    /\ getTotalKeyCount' = getTotalKeyCount
    /\ getTotalLogCount' = getTotalLogCount

LedgerUnchanged == UNCHANGED <<_keys, _keysOf, _logs, _logsOf, acl, keyEvents, logEvents>>

\* C3 as claimed: an append whose signature recovers to another identity fails
\* with AuthorizationError, whatever its metadata, and adds nothing.
C3_AsClaimed ==
    [][(CallStep /\ tx'.op \in Appends /\ RecoversToOther(tx')) =>
          /\ tx'.outcome = AuthorizationError(tx'.op)
          /\ CountsUnchanged /\ IndexesUnchanged]_vars

\* C3: an append whose signature recovers to another identity fails, with
\* AuthorizationError when its metadata passes validation and with a
\* ValidationError otherwise, and adds nothing to the count or to any index.
C3_WrongSignerRejected ==
    [][(CallStep /\ tx'.op \in Appends /\ RecoversToOther(tx')) =>
          /\ MetadataValid(tx') => tx'.outcome = AuthorizationError(tx'.op)
          /\ ~MetadataValid(tx') => tx'.outcome \in ValidationErrors
          /\ CountsUnchanged /\ IndexesUnchanged]_vars

\* an append with valid metadata, a valid proof and a signature of the other
\* user over the very digest of the call was rejected
C3_Witness ==
    /\ Called("recordTemperature")
    /\ MetadataValid(tx) /\ ProofValid(tx)
    /\ tx.signature = Sign(Other(tx.sender), CallDigest(tx))
    /\ tx.outcome = "Invalid record signature"

\* C4: a call succeeds only with the sender's signature over the purpose tag,
\* the sender and the exact metadata (append) or id (update) of this call.
C4_SignatureBindsCall ==
    (tx.status = "mined" /\ tx.op \in Mutating /\ tx.outcome = "ok") =>
        /\ SignedBySender(tx)
        /\ tx.signature.signer = tx.sender
        /\ tx.signature.hash.digest.sender = tx.sender
        /\ tx.op = "storeKey" =>
              /\ tx.signature.hash.digest.typehash = STORE_KEY_TYPEHASH
              /\ tx.signature.hash.digest.words = <<HashWord(tx.keyName)>>
        /\ tx.op = "updateKey" =>
              /\ tx.signature.hash.digest.typehash = UPDATE_KEY_TYPEHASH
              /\ tx.signature.hash.digest.words = <<UintWord(tx.id)>>
        /\ tx.op = "recordTemperature" =>
              /\ tx.signature.hash.digest.typehash = RECORD_TEMP_TYPEHASH
              /\ tx.signature.hash.digest.words = <<HashWord(tx.location), HashWord(tx.cargo)>>

\* an update of key 1 went through
C4_Witness ==
    /\ Called("updateKey") /\ tx.outcome = "ok" /\ tx.id = 1

\* C5: a failed call leaves records, indexes, grants and events as they were.
C5_FailedCallChangesNothing ==
    [][(CallStep /\ tx'.outcome # "ok") => LedgerUnchanged]_vars

\* an update of an existing key failed on its proof, after every other check
C5_Witness ==
    /\ Called("updateKey") /\ tx.outcome = "InvalidCiphertextProof"
    /\ Len(_keys) = 2 /\ Len(keyEvents) = 2

\* C6: an update by a caller who is not the owner of the record fails and
\* changes nothing, whatever its signature, input and timestamp are.
C6_NonOwnerUpdateChangesNothing ==
    [][(/\ CallStep /\ tx'.op = "updateKey"
        /\ tx'.id < Len(_keys)
        /\ _keys[tx'.id + 1].owner # tx'.sender) =>
          /\ tx'.outcome # "ok"
          /\ LedgerUnchanged]_vars

\* a non-owner's update with its own right signature and proof, at a later
\* timestamp than the record's, was rejected
C6_Witness ==
    /\ Called("updateKey") /\ tx.id < Len(_keys)
    /\ _keys[tx.id + 1].owner # tx.sender
    /\ SignedBySender(tx) /\ ProofValid(tx)
    /\ _keys[tx.id + 1].updatedAt < now
    /\ _keys[tx.id + 1].encryptedValue # tx.encValue
    /\ tx.outcome = "Not the owner"

\* the record id was updated at the timestamp at
UpdatedAt(id, at) ==
    \E i \in 1 .. Len(keyEvents) :
        keyEvents[i].name = "KeyUpdated" /\ keyEvents[i].id = id /\ keyEvents[i].at = at

\* C7 as claimed: of the owner's updates of one record with valid signature
\* and proof, the first mined at a timestamp succeeds, and one mined after an
\* update at that timestamp fails with StaleTimestamp and changes nothing.
C7_AsClaimed ==
    [][(/\ CallStep /\ tx'.op = "updateKey"
        /\ tx'.id < Len(_keys)
        /\ _keys[tx'.id + 1].owner = tx'.sender
        /\ SignedBySender(tx') /\ ProofValid(tx')) =>
          IF UpdatedAt(tx'.id, now)
          THEN tx'.outcome = "Cannot update same timestamp" /\ _keys' = _keys
          ELSE /\ tx'.outcome = "ok"
               /\ _keys'[tx'.id + 1].updatedAt = now
               /\ _keys'[tx'.id + 1].encryptedValue = tx'.encValue]_vars

\* C7: of the owner's updates of one record with valid signature and proof,
\* the one that finds updatedAt before the block's timestamp succeeds and sets
\* payload and updatedAt; one that finds updatedAt at the block's timestamp,
\* after an update or the creation in that block, fails with StaleTimestamp
\* and leaves the record as it was.
C7_SecondUpdateSameTimestampStale ==
    [][(/\ CallStep /\ tx'.op = "updateKey"
        /\ tx'.id < Len(_keys)
        /\ _keys[tx'.id + 1].owner = tx'.sender
        /\ SignedBySender(tx') /\ ProofValid(tx')) =>
          /\ _keys[tx'.id + 1].updatedAt < now =>
                /\ tx'.outcome = "ok"
                /\ _keys'[tx'.id + 1].updatedAt = now
                /\ _keys'[tx'.id + 1].encryptedValue = tx'.encValue
          /\ (UpdatedAt(tx'.id, now) \/ _keys[tx'.id + 1].createdAt = now) =>
                /\ tx'.outcome = "Cannot update same timestamp"
                /\ _keys' = _keys]_vars

\* a second update, with another payload, was rejected in the block of the first
C7_Witness ==
    /\ Called("updateKey") /\ tx.outcome = "Cannot update same timestamp"
    /\ SignedBySender(tx) /\ ProofValid(tx)
    /\ UpdatedAt(tx.id, now)
    /\ _keys[tx.id + 1].encryptedValue # tx.encValue
    /\ _keys[tx.id + 1].updatedAt = now

\* C8: updateKey reports the first failure in the order existence, ownership,
\* timestamp, signature, proof.
C8_UpdateCheckOrder ==
    [][(CallStep /\ tx'.op = "updateKey") =>
          tx'.outcome =
             IF tx'.id >= Len(_keys) THEN "Key does not exist"
             ELSE IF _keys[tx'.id + 1].owner # tx'.sender THEN "Not the owner"
             ELSE IF _keys[tx'.id + 1].updatedAt >= now THEN "Cannot update same timestamp"
             ELSE IF tx'.signature = Malformed THEN "ECDSAInvalidSignature"
             ELSE IF ~SignedBySender(tx') THEN "Invalid update signature"
             ELSE IF ~ProofValid(tx') THEN "InvalidCiphertextProof"
             ELSE "ok"]_vars

\* a non-owner's update with a malformed signature, in the very timestamp of
\* the record, was answered "Not the owner"
C8_Witness ==
    /\ Called("updateKey") /\ tx.id < Len(_keys)
    /\ _keys[tx.id + 1].owner # tx.sender
    /\ tx.signature = Malformed
    /\ _keys[tx.id + 1].updatedAt = now
    /\ tx.outcome = "Not the owner"

\* C9: an append with an empty required field fails with the ValidationError
\* of the first empty field, whatever its signature and proof are, and leaves
\* the counts as they were.
C9_EmptyMetadataRejectedFirst ==
    [][(CallStep /\ tx'.op \in Appends) =>
          /\ (tx'.op = "storeKey" /\ tx'.keyName = EmptyStr) =>
                tx'.outcome = "Key name cannot be empty" /\ CountsUnchanged
          /\ (tx'.op = "recordTemperature" /\ tx'.location = EmptyStr) =>
                tx'.outcome = "Location cannot be empty" /\ CountsUnchanged
          /\ (tx'.op = "recordTemperature" /\ tx'.location # EmptyStr
                 /\ tx'.cargo = EmptyStr) =>
                tx'.outcome = "Cargo description cannot be empty" /\ CountsUnchanged]_vars

\* a storeKey with an empty name, rightly signed and proved, was rejected
C9_Witness ==
    /\ Called("storeKey") /\ tx.keyName = EmptyStr
    /\ SignedBySender(tx) /\ ProofValid(tx)
    /\ tx.outcome = "Key name cannot be empty"

\* C10 as claimed: storeKey's validation passes exactly the names of 1 to 100
\* characters, and handleStoreKey sends exactly the names the contract passes.
C10_AsClaimed ==
    Called("storeKey") =>
        /\ charCount(tx.keyName) \in 1 .. 100 => tx.outcome \notin ValidationErrors
        /\ charCount(tx.keyName) > 100 => tx.outcome = "Key name too long"
        /\ handleStoreKey_sendsName(tx.keyName) <=> tx.outcome \notin ValidationErrors

(***************************************************************************)
(* Reads.                                                                  *)
(***************************************************************************)
NotFound == {"Key does not exist", "Log does not exist"}

\* the id lookups succeed on the ids below the count and on no other id
IdLookups ==
    \A id \in Ids :
        /\ getKeyMetaOutcome(id) = IF id < getTotalKeyCount THEN "ok" ELSE "Key does not exist"
        /\ getEncryptedValueOutcome(id) =
              IF id < getTotalKeyCount THEN "ok" ELSE "Key does not exist"
        /\ getLogMetaOutcome(id) = IF id < getTotalLogCount THEN "ok" ELSE "Log does not exist"
        /\ getEncryptedTemperatureOutcome(id) =
              IF id < getTotalLogCount THEN "ok" ELSE "Log does not exist"

\* C11: the id lookups succeed exactly on the ids below the total count and
\* fail with NotFound on the others, a lookup that is made gets that very
\* outcome, and an id that can be read can be read after every later step.
C11_ReadableBelowCount ==
    [][/\ IdLookups /\ IdLookups'
       /\ (CallStep /\ tx'.op \in {"getKeyMeta", "getEncryptedValue"}) =>
             tx'.outcome = IF tx'.id < getTotalKeyCount THEN "ok" ELSE "Key does not exist"
       /\ (CallStep /\ tx'.op \in {"getLogMeta", "getEncryptedTemperature"}) =>
             tx'.outcome = IF tx'.id < getTotalLogCount THEN "ok" ELSE "Log does not exist"
       /\ \A id \in Ids :
             /\ getKeyMetaOutcome(id) = "ok" => getKeyMetaOutcome(id)' = "ok"
             /\ getEncryptedValueOutcome(id) = "ok" => getEncryptedValueOutcome(id)' = "ok"
             /\ getLogMetaOutcome(id) = "ok" => getLogMetaOutcome(id)' = "ok"
             /\ getEncryptedTemperatureOutcome(id) = "ok" =>
                   getEncryptedTemperatureOutcome(id)' = "ok"]_vars

\* with one key stored, a lookup of id 1 = totalCount failed while id 0 reads
C11_Witness ==
    /\ Called("getKeyMeta") /\ tx.id = 1 /\ getTotalKeyCount = 1
    /\ tx.outcome = "Key does not exist"
    /\ getKeyMetaOutcome(0) = "ok" /\ getEncryptedValueOutcome(0) = "ok"
    /\ Len(keyEvents) = 2

(***************************************************************************)
(* Appends and updates.                                                    *)
(***************************************************************************)
\* this step mined a successful call of op
Succeeded(op) == CallStep /\ tx'.op = op /\ tx'.outcome = "ok"

\* C12: a successful append creates exactly one record, under the id that was
\* the total count; its metadata reads owner, plaintext fields and flag as
\* supplied and the block's timestamp (as createdAt and updatedAt of a key),
\* its payload reads the handle supplied; the total count and the count of the
\* sender grow by one, the id joins the sender's index and no other index
\* changes.
C12_AppendCreatesOneRecord ==
    [][/\ Succeeded("storeKey") =>
             \A id \in {getTotalKeyCount} :
                 /\ getTotalKeyCount' = getTotalKeyCount + 1
                 /\ SubSeq(_keys', 1, id) = _keys
                 /\ getKeyMetaOutcome(id)' = "ok"
                 /\ getKeyMeta(id)' = [owner |-> tx'.sender, keyName |-> tx'.keyName,
                                       createdAt |-> now, updatedAt |-> now]
                 /\ getEncryptedValue(id)' = tx'.encValue
                 /\ \A o \in Addresses :
                        IF o = tx'.sender
                        THEN /\ getKeyCountByOwner(o)' = getKeyCountByOwner(o) + 1
                             /\ getKeyIdsByOwner(o)' = Append(getKeyIdsByOwner(o), id)
                        ELSE getKeyIdsByOwner(o)' = getKeyIdsByOwner(o)
                 /\ UNCHANGED <<_logs, _logsOf>>
       /\ Succeeded("recordTemperature") =>
             \A id \in {getTotalLogCount} :
                 /\ getTotalLogCount' = getTotalLogCount + 1
                 /\ SubSeq(_logs', 1, id) = _logs
                 /\ getLogMetaOutcome(id)' = "ok"
                 /\ getLogMeta(id)' = [recorder |-> tx'.sender, location |-> tx'.location,
                                       cargo |-> tx'.cargo, timestamp |-> now,
                                       isWarning |-> tx'.isWarning]
                 /\ getEncryptedTemperature(id)' = tx'.encValue
                 /\ \A o \in Addresses :
                        IF o = tx'.sender
                        THEN /\ getLogCountByRecorder(o)' = getLogCountByRecorder(o) + 1
                             /\ getLogIdsByRecorder(o)' = Append(getLogIdsByRecorder(o), id)
                        ELSE getLogIdsByRecorder(o)' = getLogIdsByRecorder(o)
                 /\ UNCHANGED <<_keys, _keysOf>>]_vars

\* two logs of one recorder carry the same payload and different flags, the
\* second one, unflagged, just appended at a later timestamp than the first
C12_Witness ==
    /\ Called("recordTemperature") /\ tx.outcome = "ok" /\ ~tx.isWarning
    /\ getTotalLogCount = 2
    /\ getLogMeta(0).isWarning /\ ~getLogMeta(1).isWarning
    /\ getEncryptedTemperature(0) = getEncryptedTemperature(1)
    /\ getLogMeta(0).recorder = getLogMeta(1).recorder
    /\ getLogMeta(0).timestamp < getLogMeta(1).timestamp

\* C13: a successful updateKey sets the payload of its record to the handle of
\* the call and its updatedAt to the block's timestamp, and leaves owner, key
\* name and createdAt of that record, every other record, the total count and
\* every index as they were.
C13_UpdateChangesPayloadAndUpdatedAt ==
    [][Succeeded("updateKey") =>
          \A id \in {tx'.id} :
              /\ getEncryptedValue(id)' = tx'.encValue
              /\ getKeyMeta(id)' = [getKeyMeta(id) EXCEPT !.updatedAt = now]
              /\ getKeyMeta(id).owner = tx'.sender
              /\ \A other \in 0 .. getTotalKeyCount - 1 :
                    other # id => _keys'[other + 1] = _keys[other + 1]
              /\ getTotalKeyCount' = getTotalKeyCount
              /\ UNCHANGED <<_keysOf, _logs, _logsOf>>]_vars

\* with two keys stored, key 0 got another payload at a later timestamp
C13_Witness ==
    /\ Called("updateKey") /\ tx.outcome = "ok" /\ tx.id = 0
    /\ getTotalKeyCount = 2
    /\ getKeyMeta(0).createdAt < getKeyMeta(0).updatedAt
    /\ getEncryptedValue(0) = tx.encValue
    /\ \E i \in 1 .. Len(keyEvents) :
          keyEvents[i].name = "KeyStored" /\ keyEvents[i].id = 0
    /\ \E n \in 1 .. NumValues :
          /\ Handle(tx.sender, n) # tx.encValue
          /\ <<Handle(tx.sender, n), tx.sender>> \in acl

\* C14: over every step, a stored key keeps its id, owner, key name and
\* createdAt, its payload and updatedAt change only in a successful updateKey
\* of that id sent by its owner, every stored log keeps all its fields, and
\* the ids an owner index holds stay in it.
C14_RecordsImmutable ==
    [][/\ \A id \in 0 .. getTotalKeyCount - 1 :
             /\ getKeyMetaOutcome(id)' = "ok"
             /\ getKeyMeta(id)'.owner = getKeyMeta(id).owner
             /\ getKeyMeta(id)'.keyName = getKeyMeta(id).keyName
             /\ getKeyMeta(id)'.createdAt = getKeyMeta(id).createdAt
             /\ (\/ getEncryptedValue(id)' # getEncryptedValue(id)
                 \/ getKeyMeta(id)'.updatedAt # getKeyMeta(id).updatedAt) =>
                   /\ Succeeded("updateKey") /\ tx'.id = id
                   /\ tx'.sender = getKeyMeta(id).owner
       /\ \A id \in 0 .. getTotalLogCount - 1 :
             /\ getLogMetaOutcome(id)' = "ok"
             /\ getLogMeta(id)' = getLogMeta(id)
             /\ getEncryptedTemperature(id)' = getEncryptedTemperature(id)
       /\ \A o \in Addresses :
             /\ SubSeq(getKeyIdsByOwner(o)', 1, getKeyCountByOwner(o)) = getKeyIdsByOwner(o)
             /\ SubSeq(getLogIdsByRecorder(o)', 1, getLogCountByRecorder(o)) =
                   getLogIdsByRecorder(o)]_vars

\* a key that its owner had updated and a log are stored, and an update of
\* that key by the other user, rightly signed and proved, was just rejected
C14_Witness ==
    /\ Called("updateKey") /\ tx.id = 0 /\ tx.outcome = "Not the owner"
    /\ SignedBySender(tx) /\ ProofValid(tx)
    /\ getTotalKeyCount = 1 /\ getTotalLogCount = 1
    /\ getKeyMeta(0).createdAt < getKeyMeta(0).updatedAt

(***************************************************************************)
(* The life of a key over three timestamps.  The callers are the signers   *)
(* of the test suite: each signs the digest of its own call (signStoreKey, *)
(* signUpdateKey) and submits a ciphertext it encrypted for itself.        *)
(***************************************************************************)
MaxTimeSigned == 3   \* last block timestamp when all calls are rightly signed

SignedStoreKey ==
    /\ Idle
    /\ \E sender \in Users, keyName \in KeyNames, n \in 1 .. NumValues :
          storeKey(sender, keyName, Handle(sender, n), "proof",
                   Sign(sender, StoreDigest(sender, keyName)))
    /\ UNCHANGED frontend

SignedUpdateKey ==
    /\ Idle
    /\ \E sender \in Users, id \in Ids, n \in 1 .. NumValues :
          updateKey(sender, id, Handle(sender, n), "proof",
                    Sign(sender, UpdateDigest(sender, id)))
    /\ UNCHANGED frontend

AdvanceTimeSigned ==
    /\ now < MaxTimeSigned
    /\ now' = now + 1
    /\ UNCHANGED <<_keys, _keysOf, _logs, _logsOf, acl, keyEvents, logEvents,
                   okAppends, tx, frontend>>

NextSigned ==
    \/ SignedStoreKey
    \/ SignedUpdateKey
    \/ TxWait
    \/ AdvanceTimeSigned

SpecSigned == Init /\ [][NextSigned]_vars

\* where the key id is in its life
KeyLife(id) ==
    IF ~(id < getTotalKeyCount) THEN "nonexistent"
    ELSE IF getKeyMeta(id).updatedAt = getKeyMeta(id).createdAt THEN "created"
    ELSE "updated"

KeyLifeSteps ==
    {<<"nonexistent", "nonexistent">>, <<"nonexistent", "created">>,
     <<"created", "created">>, <<"created", "updated">>, <<"updated", "updated">>}

\* every key has createdAt <= updatedAt <= block timestamp
KeyTimesOrdered ==
    \A id \in 0 .. getTotalKeyCount - 1 :
        /\ getKeyMeta(id).createdAt <= getKeyMeta(id).updatedAt
        /\ getKeyMeta(id).updatedAt <= now

\* C15: every key has updatedAt >= createdAt in every state, a successful
\* update strictly increases the updatedAt of its record, the clock never
\* goes back, and a key only goes nonexistent -> created -> updated ->
\* updated: no step takes it back or deletes it.
C15_UpdatedAtIncreases ==
    [][/\ KeyTimesOrdered /\ KeyTimesOrdered'
       /\ now' >= now
       /\ Succeeded("updateKey") =>
             \A id \in {tx'.id} :
                 /\ getKeyMeta(id)'.updatedAt > getKeyMeta(id).updatedAt
                 /\ KeyLife(id)' = "updated"
       /\ \A id \in Ids :
             /\ <<KeyLife(id), KeyLife(id)'>> \in KeyLifeSteps
             /\ KeyLife(id) # KeyLife(id)' =>
                   (Succeeded("storeKey") \/ (Succeeded("updateKey") /\ tx'.id = id))
             /\ id < getTotalKeyCount =>
                   getKeyMeta(id)'.updatedAt >= getKeyMeta(id).updatedAt]_vars

\* a key created at 1 and updated at 2 was updated again at 3
C15_Witness ==
    /\ Called("updateKey") /\ tx.outcome = "ok"
    /\ getKeyMeta(tx.id).createdAt = 1 /\ getKeyMeta(tx.id).updatedAt = 3
    /\ UpdatedAt(tx.id, 2) /\ UpdatedAt(tx.id, 3)

(***************************************************************************)
(* Statistics, grants and events.                                          *)
(***************************************************************************)
\* the ids of the stored logs whose flag is set
FlaggedLogIds == {id \in 0 .. getTotalLogCount - 1 : getLogMeta(id).isWarning}

\* C16: in every state getStats returns the total count of logs and the
\* number of stored logs whose flag is set.
C16_StatsCountFlagged ==
    /\ getStats.totalLogs = getTotalLogCount
    /\ getStats.totalLogs = okAppends.logs
    /\ getStats.warningCount = Cardinality(FlaggedLogIds)

\* getStats was read as (2, 1) with an unflagged log of one recorder followed
\* by a flagged log of the other
C16_Witness ==
    /\ Called("getStats") /\ tx.outcome = "ok"
    /\ getStats = [totalLogs |-> 2, warningCount |-> 1]
    /\ ~getLogMeta(0).isWarning /\ getLogMeta(1).isWarning
    /\ getLogMeta(0).recorder # getLogMeta(1).recorder

\* address is allowed on handle
Allowed(handle, address) == <<handle, address>> \in acl

\* C17: in every state the ledger that stores a record and the owner of the
\* record are both allowed on the payload handle the record holds.
C17_StoredPayloadGranted ==
    /\ \A id \in 0 .. getTotalKeyCount - 1 :
          /\ Allowed(getEncryptedValue(id), KeyChainAddress)
          /\ Allowed(getEncryptedValue(id), getKeyMeta(id).owner)
    /\ \A id \in 0 .. getTotalLogCount - 1 :
          /\ Allowed(getEncryptedTemperature(id), TrackerAddress)
          /\ Allowed(getEncryptedTemperature(id), getLogMeta(id).recorder)

\* a log of one user is stored and a key of the other just got a new payload
C17_Witness ==
    /\ Called("updateKey") /\ tx.outcome = "ok"
    /\ getTotalKeyCount = 1 /\ getTotalLogCount = 1
    /\ getEncryptedValue(0) = tx.encValue
    /\ getKeyMeta(0).owner # getLogMeta(0).recorder
    /\ Cardinality(acl) = 6

\* C18: no step removes a grant, and after a successful updateKey the ledger
\* and the owner are still allowed on the payload handle that was replaced.
C18_GrantsNeverRevoked ==
    [][/\ acl \subseteq acl'
       /\ Succeeded("updateKey") =>
             \A id \in {tx'.id} :
                 /\ <<getEncryptedValue(id), KeyChainAddress>> \in acl'
                 /\ <<getEncryptedValue(id), getKeyMeta(id).owner>> \in acl']_vars

\* the only record is a key whose payload was replaced by another handle, and
\* the grants on both handles are there
C18_Witness ==
    /\ Called("updateKey") /\ tx.outcome = "ok"
    /\ getTotalKeyCount = 1 /\ getTotalLogCount = 0
    /\ getEncryptedValue(0) = tx.encValue
    /\ Cardinality(acl) = 4
    /\ \E n \in 1 .. NumValues :
          /\ Handle(tx.sender, n) # tx.encValue
          /\ Allowed(Handle(tx.sender, n), tx.sender)
          /\ Allowed(Handle(tx.sender, n), KeyChainAddress)

\* C19: a successful storeKey, updateKey or recordTemperature emits exactly
\* one event, which carries the id, owner, plaintext fields, timestamp and
\* flag as they are stored after the call (the id of an append being the
\* count of appends before it); every other call and step emits none.
C19_OneEventPerSuccess ==
    [][/\ Succeeded("storeKey") =>
             \A id \in {getTotalKeyCount} :
                 /\ keyEvents' = Append(keyEvents,
                       [name |-> "KeyStored", id |-> id, owner |-> getKeyMeta(id)'.owner,
                        keyName |-> getKeyMeta(id)'.keyName, at |-> getKeyMeta(id)'.createdAt])
                 /\ id = okAppends.keys
                 /\ logEvents' = logEvents
       /\ Succeeded("updateKey") =>
             \A id \in {tx'.id} :
                 /\ keyEvents' = Append(keyEvents,
                       [name |-> "KeyUpdated", id |-> id, owner |-> getKeyMeta(id)'.owner,
                        keyName |-> getKeyMeta(id)'.keyName, at |-> getKeyMeta(id)'.updatedAt])
                 /\ getKeyMeta(id)'.updatedAt = now
                 /\ logEvents' = logEvents
       /\ Succeeded("recordTemperature") =>
             \A id \in {getTotalLogCount} :
                 /\ logEvents' = Append(logEvents,
                       [name |-> "TemperatureRecorded", id |-> id,
                        recorder |-> getLogMeta(id)'.recorder,
                        location |-> getLogMeta(id)'.location,
                        cargo |-> getLogMeta(id)'.cargo,
                        timestamp |-> getLogMeta(id)'.timestamp,
                        isWarning |-> getLogMeta(id)'.isWarning])
                 /\ id = okAppends.logs
                 /\ keyEvents' = keyEvents
       /\ ~(\E op \in Mutating : Succeeded(op)) =>
             UNCHANGED <<keyEvents, logEvents>>]_vars

\* three events after three successful calls: a key stored at 1, a flagged
\* log, and the update of the key at 2, just mined
C19_Witness ==
    /\ Called("updateKey") /\ tx.outcome = "ok" /\ tx.id = 0
    /\ Len(keyEvents) = 2 /\ Len(logEvents) = 1
    /\ keyEvents[1].name = "KeyStored" /\ keyEvents[1].at = 1
    /\ keyEvents[2] = [name |-> "KeyUpdated", id |-> 0, owner |-> tx.sender,
                       keyName |-> getKeyMeta(0).keyName, at |-> 2]
    /\ logEvents[1].isWarning

\* the addresses that own a key, and those that recorded a log
KeyOwnerSet == {getKeyMeta(id).owner : id \in 0 .. getTotalKeyCount - 1}

LogRecorderSet == {getLogMeta(id).recorder : id \in 0 .. getTotalLogCount - 1}

\* an owner that never appended has count 0 and no ids
NoRecordsNoIds ==
    \A o \in Addresses :
        /\ o \notin KeyOwnerSet =>
              getKeyCountByOwner(o) = 0 /\ getKeyIdsByOwner(o) = <<>>
        /\ o \notin LogRecorderSet =>
              getLogCountByRecorder(o) = 0 /\ getLogIdsByRecorder(o) = <<>>

\* C20: a view changes nothing of the ledgers, and fails only when it is an
\* id lookup of an id at or above the count; the count and ids of an owner
\* without records read 0 and the empty sequence.
C20_ViewsReadOnly ==
    [][/\ (CallStep /\ tx'.op \in Views) =>
             /\ LedgerUnchanged
             /\ UNCHANGED <<now, okAppends>>
             /\ tx'.outcome # "ok" =>
                   /\ tx'.op \in IdViews
                   /\ tx'.outcome \in NotFound
                   /\ tx'.op \in {"getKeyMeta", "getEncryptedValue"} =>
                         tx'.id >= getTotalKeyCount
                   /\ tx'.op \in {"getLogMeta", "getEncryptedTemperature"} =>
                         tx'.id >= getTotalLogCount
       /\ NoRecordsNoIds /\ NoRecordsNoIds']_vars

\* with two keys stored, the key count of an address that never called was read
C20_Witness ==
    /\ Called("getKeyCountByOwner") /\ tx.owner = "carol" /\ tx.outcome = "ok"
    /\ getKeyCountByOwner("carol") = 0 /\ getKeyIdsByOwner("carol") = <<>>
    /\ getTotalKeyCount = 2

(***************************************************************************)
(* What a read can see.                                                    *)
(***************************************************************************)
\* how often id occurs in the sequence ids
Occurrences(ids, id) == Cardinality({i \in 1 .. Len(ids) : ids[i] = id})

\* the ledgers as a read finds them: every counted record is once in the
\* index of its owner and in no other, every indexed id is below the count,
\* and a key that was updated carries the timestamp of its last update
ConsistentSnapshot ==
    /\ \A id \in 0 .. getTotalKeyCount - 1, o \in Addresses :
          Occurrences(getKeyIdsByOwner(o), id) = IF o = getKeyMeta(id).owner THEN 1 ELSE 0
    /\ \A id \in 0 .. getTotalLogCount - 1, o \in Addresses :
          Occurrences(getLogIdsByRecorder(o), id) =
             IF o = getLogMeta(id).recorder THEN 1 ELSE 0
    /\ \A o \in Addresses :
          /\ \A i \in 1 .. getKeyCountByOwner(o) : getKeyIdsByOwner(o)[i] < getTotalKeyCount
          /\ \A i \in 1 .. getLogCountByRecorder(o) :
                getLogIdsByRecorder(o)[i] < getTotalLogCount
    /\ \A i \in 1 .. Len(keyEvents) :
          getKeyMeta(keyEvents[i].id).updatedAt >= keyEvents[i].at

\* C21: every state a read can be made in is the state after a whole number
\* of mutations: counts and indexes agree in it, a step changes the ledgers
\* only as one entire successful call does (record, index entry, grants and
\* event together; payload and updatedAt together), and a read leaves the
\* state it saw.
C21_ReadsSeeWholeWrites ==
    [][/\ ConsistentSnapshot /\ ConsistentSnapshot'
       /\ ~LedgerUnchanged => \E op \in Mutating : Succeeded(op)
       /\ \A o \in Addresses :
             /\ getKeyCountByOwner(o)' # getKeyCountByOwner(o) <=>
                   (getTotalKeyCount' # getTotalKeyCount /\ tx'.sender = o)
             /\ getLogCountByRecorder(o)' # getLogCountByRecorder(o) <=>
                   (getTotalLogCount' # getTotalLogCount /\ tx'.sender = o)
       /\ \A id \in 0 .. getTotalKeyCount - 1 :
             getEncryptedValue(id)' # getEncryptedValue(id) =>
                 /\ getKeyMeta(id)'.updatedAt > getKeyMeta(id).updatedAt
                 /\ getKeyMeta(id)'.updatedAt = now
       /\ (CallStep /\ tx'.op \in Views) => LedgerUnchanged]_vars

\* alice's ids were read after alice stored a key, bob stored one and alice
\* replaced the payload of hers
C21_Witness ==
    /\ Called("getKeyIdsByOwner") /\ tx.owner = "alice" /\ tx.outcome = "ok"
    /\ getKeyIdsByOwner("alice") = <<0>> /\ getKeyIdsByOwner("bob") = <<1>>
    /\ getKeyMeta(0).updatedAt > getKeyMeta(0).createdAt
    /\ Len(keyEvents) = 3

(***************************************************************************)
(* Third specification: one temperature typed into the upload form,        *)
(* recorded and decrypted again.  The ciphertext carries the integer       *)
(* unchanged (an euint32; every value of the model is below 2^32).         *)
(***************************************************************************)
MaxTenths == 1000   \* the documented range is -100.0 .. +100.0

\* handleManualUpload, recordTemperature: parse the field, encode the Number
RecordReading ==
    /\ reading.stage = "typed"
    /\ reading' = [reading EXCEPT !.stage = "recorded",
                      !.temperature = parseFloat(reading.tenths),
                      !.tempValue = tempValue(parseFloat(reading.tenths))]
    /\ UNCHANGED <<chain, coldChainTracker, frostKeyChain, calls, header>>

\* decryptTemperature: decode the decrypted integer
DecryptReading ==
    /\ reading.stage = "recorded"
    /\ reading' = [reading EXCEPT !.stage = "decrypted",
                      !.tempCelsius = tempCelsius(reading.tempValue)]
    /\ UNCHANGED <<chain, coldChainTracker, frostKeyChain, calls, header>>

InitTemperature ==
    /\ _keys = <<>>
    /\ _keysOf = [u \in Addresses |-> <<>>]
    /\ _logs = <<>>
    /\ _logsOf = [u \in Addresses |-> <<>>]
    /\ acl = {}
    /\ keyEvents = <<>>
    /\ logEvents = <<>>
    /\ now = 1
    /\ okAppends = [keys |-> 0, logs |-> 0]
    /\ tx = NoTx
    /\ \E tenths \in -MaxTenths .. MaxTenths :
          reading = [NoReading EXCEPT !.stage = "typed", !.tenths = tenths]
    /\ coldChainTracker = ColdChainTrackerInit
    /\ frostKeyChain = FrostKeyChainInit
    /\ calls = [c \in CallIds |-> NoCall]
    /\ header = HeaderInit

NextTemperature ==
    \/ RecordReading
    \/ DecryptReading

SpecTemperature == InitTemperature /\ [][NextTemperature]_vars

\* C22: a temperature of the documented range, a multiple of 0.1, is
\* submitted as (t + 100) * 10, an integer of 0 .. 2000, and is shown after
\* decryption as exactly the temperature that was typed; both directions use
\* one offset.
C22_AsClaimed ==
    /\ TEMP_OFFSET = decryptTemperature_TEMP_OFFSET
    /\ reading.stage \in {"recorded", "decrypted"} =>
          /\ reading.tempValue = reading.tenths + TEMP_OFFSET * 10
          /\ reading.tempValue \in 0 .. 2000
    /\ reading.stage = "decrypted" => reading.tempCelsius = reading.temperature

(***************************************************************************)
(* Fourth specification: as the second one, with temperature logs: every   *)
(* caller signs each digest once and sends the signature again with every  *)
(* call of that digest, whatever the ciphertext and the flag.              *)
(***************************************************************************)
SignedRecordTemperature ==
    /\ Idle
    /\ \E sender \in Users, n \in 1 .. NumValues, isWarning \in BOOLEAN :
          recordTemperature(sender, Str(1, 0, 0), Str(3, 0, 0), Handle(sender, n), "proof",
                            isWarning,
                            Sign(sender, RecordDigest(sender, Str(1, 0, 0), Str(3, 0, 0))))
    /\ UNCHANGED frontend

NextReplay ==
    \/ SignedStoreKey
    \/ SignedUpdateKey
    \/ SignedRecordTemperature
    \/ TxWait
    \/ AdvanceTimeSigned

SpecReplay == Init /\ [][NextReplay]_vars

\* the signature of the call t was accepted by an earlier successful call: a
\* record of the sender with the metadata of t exists, or the key was updated
SignatureAcceptedBefore(t) ==
    IF t.op = "storeKey"
    THEN \E id \in 0 .. getTotalKeyCount - 1 :
            getKeyMeta(id).owner = t.sender /\ getKeyMeta(id).keyName = t.keyName
    ELSE IF t.op = "recordTemperature"
    THEN \E id \in 0 .. getTotalLogCount - 1 :
            /\ getLogMeta(id).recorder = t.sender
            /\ getLogMeta(id).location = t.location /\ getLogMeta(id).cargo = t.cargo
    ELSE \E at \in 1 .. MaxTimeSigned : UpdatedAt(t.id, at)

\* C23: a signature that was accepted is accepted again, with any encrypted
\* input of the sender and any flag: a create call that repeats sender and
\* metadata succeeds and adds a record of its own with the payload and flag
\* of this call; an update of the owner that repeats the signature succeeds
\* at every timestamp later than the record's updatedAt (and only then).
C23_SignaturesReusable ==
    [][(/\ CallStep /\ tx'.op \in Mutating
        /\ SignedBySender(tx') /\ ProofValid(tx')
        /\ SignatureAcceptedBefore(tx')) =>
          /\ tx'.op = "storeKey" =>
                /\ tx'.outcome = "ok"
                /\ getTotalKeyCount' = getTotalKeyCount + 1
                /\ \A id \in {getTotalKeyCount} :
                      /\ getEncryptedValue(id)' = tx'.encValue
                      /\ getKeyMeta(id)'.owner = tx'.sender
                /\ \A id \in 0 .. getTotalKeyCount - 1 :
                      /\ getKeyMeta(id)' = getKeyMeta(id)
                      /\ getEncryptedValue(id)' = getEncryptedValue(id)
          /\ tx'.op = "recordTemperature" =>
                /\ tx'.outcome = "ok"
                /\ getTotalLogCount' = getTotalLogCount + 1
                /\ \A id \in {getTotalLogCount} :
                      /\ getEncryptedTemperature(id)' = tx'.encValue
                      /\ getLogMeta(id)'.isWarning = tx'.isWarning
                /\ \A id \in 0 .. getTotalLogCount - 1 :
                      /\ getLogMeta(id)' = getLogMeta(id)
                      /\ getEncryptedTemperature(id)' = getEncryptedTemperature(id)
          /\ (tx'.op = "updateKey" /\ getKeyMeta(tx'.id).owner = tx'.sender) =>
                /\ tx'.outcome = "ok" <=> now > getKeyMeta(tx'.id).updatedAt
                /\ tx'.outcome = "ok" => \A id \in {tx'.id} :
                      getEncryptedValue(id)' = tx'.encValue]_vars

\* one store signature made two keys of one owner and name, and one update
\* signature then replaced the payload of the second at 2 and again at 3
C23_Witness ==
    /\ Called("updateKey") /\ tx.outcome = "ok" /\ tx.id = 1
    /\ tx.signature = Sign(tx.sender, UpdateDigest(tx.sender, 1))
    /\ UpdatedAt(1, 2) /\ UpdatedAt(1, 3)
    /\ getKeyMeta(0).owner = getKeyMeta(1).owner
    /\ getKeyMeta(0).keyName = getKeyMeta(1).keyName
    /\ getEncryptedValue(0) # getEncryptedValue(1)

\* no update of the record id has succeeded
NeverUpdated(id) == \A at \in 1 .. MaxTimeSigned : ~UpdatedAt(id, at)

\* C24: a record that was never updated has updatedAt = createdAt, so an
\* updateKey of its owner mined at the timestamp of its creation fails with
\* StaleTimestamp and changes nothing, and the first update that succeeds is
\* mined at a timestamp strictly greater than createdAt.
C24_FirstUpdateAfterCreation ==
    [][/\ \A id \in 0 .. getTotalKeyCount - 1 :
             NeverUpdated(id) => getKeyMeta(id).updatedAt = getKeyMeta(id).createdAt
       /\ (/\ CallStep /\ tx'.op = "updateKey"
           /\ tx'.id < getTotalKeyCount
           /\ getKeyMeta(tx'.id).owner = tx'.sender
           /\ NeverUpdated(tx'.id)) =>
             /\ now = getKeyMeta(tx'.id).createdAt =>
                   /\ tx'.outcome = "Cannot update same timestamp"
                   /\ LedgerUnchanged
             /\ tx'.outcome = "ok" =>
                   /\ now > getKeyMeta(tx'.id).createdAt
                   /\ \A id \in {tx'.id} : getKeyMeta(id)'.updatedAt > getKeyMeta(id)'.createdAt]_vars

\* the owner's update, rightly signed and proved, of a key stored at this
\* very timestamp and never updated was rejected as stale
C24_Witness ==
    /\ Called("updateKey") /\ tx.outcome = "Cannot update same timestamp"
    /\ SignedBySender(tx) /\ ProofValid(tx)
    /\ getKeyMeta(tx.id).owner = tx.sender
    /\ getKeyMeta(tx.id).createdAt = now
    /\ NeverUpdated(tx.id)

\* the ledger a call is made to
LedgerOf(op) == IF op = "recordTemperature" THEN TrackerAddress ELSE KeyChainAddress

\* C25: a step grants access only when it mines a successful append or
\* update, and then only on the payload of that call, to the ledger called
\* and to the sender; so no identity is ever allowed on the payload of a
\* record of another owner, and a read grants nothing.
C25_GrantsOnlyLedgerAndCaller ==
    [][/\ acl' \ acl # {} => \E op \in Mutating : Succeeded(op)
       /\ acl' \ acl \subseteq {<<tx'.encValue, LedgerOf(tx'.op)>>, <<tx'.encValue, tx'.sender>>}
       /\ (CallStep /\ tx'.op \in Views) => acl' = acl
       /\ \A b \in Addresses :
             /\ \A id \in 0 .. getTotalKeyCount' - 1 :
                   b # getKeyMeta(id)'.owner => <<getEncryptedValue(id)', b>> \notin acl'
             /\ \A id \in 0 .. getTotalLogCount' - 1 :
                   b # getLogMeta(id)'.recorder =>
                       <<getEncryptedTemperature(id)', b>> \notin acl'
             /\ \A grant \in acl' : grant[2] = b => grant[1].user = b]_vars

\* the payload of alice's key was read while bob, who has a log of his own,
\* is not allowed on it: the four grants are those of the two appends
C25_Witness ==
    /\ Called("getEncryptedValue") /\ tx.outcome = "ok" /\ tx.id = 0
    /\ getKeyMeta(0).owner = "alice"
    /\ getTotalLogCount = 1 /\ getLogMeta(0).recorder = "bob"
    /\ ~Allowed(getEncryptedValue(0), "bob")
    /\ Allowed(getEncryptedValue(0), "alice")
    /\ Cardinality(acl) = 4

(***************************************************************************)
(* Fifth specification: the browser loads logs and keys while callers      *)
(* append logs, store keys and replace payloads.                           *)
(***************************************************************************)
\* a caller records a temperature
AppendLog ==
    /\ \E sender \in Users, isWarning \in BOOLEAN :
          recordTemperature(sender, Str(1, 0, 0), Str(3, 0, 0), Handle(sender, 1), "proof",
                            isWarning,
                            Sign(sender, RecordDigest(sender, Str(1, 0, 0), Str(3, 0, 0))))
    /\ UNCHANGED frontend

\* a caller stores a key
AppendKey ==
    /\ \E sender \in Users :
          storeKey(sender, Str(1, 0, 0), Handle(sender, 1), "proof",
                   Sign(sender, StoreDigest(sender, Str(1, 0, 0))))
    /\ UNCHANGED frontend

\* a caller replaces the payload of a key
ReplaceKey ==
    /\ \E sender \in Users, id \in Ids :
          updateKey(sender, id, Handle(sender, 2), "proof",
                    Sign(sender, UpdateDigest(sender, id)))
    /\ UNCHANGED frontend

\* the page calls loadLogs (invocation 1) and loadKeys (invocation 2)
LoadLogs == \E ready \in BOOLEAN : loadLogs_call(1, ready)

LoadKeys == \E ready \in BOOLEAN, owner \in BOOLEAN : loadKeys_call(2, ready, owner)

Provider == \E c \in CallIds : eth_call(c)

Continue == \E c \in CallIds : loadLogs_resume(c) \/ loadKeys_resume(c)

NextLoad ==
    \/ AppendLog
    \/ AppendKey
    \/ ReplaceKey
    \/ AdvanceTime
    \/ LoadLogs
    \/ LoadKeys
    \/ Provider
    \/ Continue

SpecLoad == Init /\ [][NextLoad]_vars

\* the entries of a loaded list are those of the ids, in their order
LoadedFrom(loaded, ids) ==
    /\ Len(loaded) <= Len(ids)
    /\ \A i \in 1 .. Len(loaded) : loaded[i].id = ids[i]

\* the log entry is the log of that id as the ledger holds it
LogAsRecorded(entry) ==
    /\ entry.id < getTotalLogCount
    /\ entry = TemperatureLog(entry.id, getLogMeta(entry.id))

\* the key entry has the owner, name and creation time of the key of that id
KeyAsCreated(entry) ==
    /\ entry.id < getTotalKeyCount
    /\ entry.owner = getKeyMeta(entry.id).owner /\ entry.owner = SignerAddress
    /\ entry.keyName = getKeyMeta(entry.id).keyName
    /\ entry.createdAt = getKeyMeta(entry.id).createdAt
    /\ entry.updatedAt \in entry.createdAt .. getKeyMeta(entry.id).updatedAt

\* C26: whatever callers append or update between the reads of loadLogs and
\* loadKeys, no getLogMeta / getKeyMeta for an obtained id fails with
\* NotFound; the ids obtained are increasing; the list being built, the list
\* of a load that ended without error and the list the hook holds have one
\* entry per obtained id, in that order, each with the owner, metadata and
\* creation time of the record on the ledger.
C26_LoadSafeUnderAppends ==
    /\ \A c \in CallIds :
          /\ calls[c].error \notin NotFound
          /\ \A i, j \in 1 .. Len(calls[c].ids) : i < j => calls[c].ids[i] < calls[c].ids[j]
          /\ LoadedFrom(calls[c].loaded, calls[c].ids)
          /\ (calls[c].pc = "returned" /\ calls[c].error = "") =>
                Len(calls[c].loaded) = Len(calls[c].ids)
          /\ calls[c].fn = "loadLogs" =>
                \A i \in 1 .. Len(calls[c].loaded) : LogAsRecorded(calls[c].loaded[i])
          /\ calls[c].fn = "loadKeys" =>
                \A i \in 1 .. Len(calls[c].loaded) : KeyAsCreated(calls[c].loaded[i])
    /\ \A i \in 1 .. Len(coldChainTracker.logs) : LogAsRecorded(coldChainTracker.logs[i])
    /\ \A i \in 1 .. Len(frostKeyChain.keys) : KeyAsCreated(frostKeyChain.keys[i])
    /\ (calls[1].pc = "returned" /\ calls[1].error = "") =>
          coldChainTracker.logs = calls[1].loaded
    /\ (calls[2].pc = "returned" /\ calls[2].error = "") =>
          frostKeyChain.keys = calls[2].loaded

\* loadKeys ended with the one key the signer had when the ids were read,
\* showing the updatedAt it read, while the key was updated since and the
\* signer stored a second key
C26_Witness ==
    /\ calls[2].fn = "loadKeys" /\ calls[2].pc = "returned" /\ calls[2].error = ""
    /\ calls[2].ids = <<0>>
    /\ Len(frostKeyChain.keys) = 1
    /\ getKeyIdsByOwner(SignerAddress) = <<0, 1>>
    /\ frostKeyChain.keys[1].updatedAt < getKeyMeta(0).updatedAt

(***************************************************************************)
(* Sixth specification: loadLogs is called again while a loadLogs is in    *)
(* flight (the effect of the page on connect, the reload at the end of     *)
(* recordTemperature, the onUpload reload), and logs are appended.         *)
(***************************************************************************)
Reload == \E c \in CallIds, ready \in BOOLEAN : loadLogs_call(c, ready)

ContinueLogs == \E c \in CallIds : loadLogs_resume(c)

NextReload ==
    \/ AppendLog
    \/ Reload
    \/ Provider
    \/ ContinueLogs

SpecReload == Init /\ [][NextReload]_vars

\* the invocation is between its first await and its return
InFlight(c) == calls[c].pc \notin {"none", "returned"}

\* the invocation ran to its end and called setLogs
SetLogs(c) ==
    /\ calls[c].fn = "loadLogs" /\ calls[c].pc = "returned" /\ calls[c].error = ""
    /\ calls[c].loaded # <<>>

\* when no loadLogs is in flight, no load that called setLogs has obtained
\* more ids than the list of the hook holds
NewestListKept ==
    (\A c \in CallIds : ~InFlight(c)) =>
        \A c \in CallIds : SetLogs(c) => Len(calls[c].ids) <= Len(coldChainTracker.logs)

\* C28: isLoading is true while a loadLogs is in flight, and when no loadLogs
\* is in flight any more the list is that of the load that read the ledger
\* last (the ledger only grows, so that load has obtained the most ids).
C28_AsClaimed ==
    /\ (\E c \in CallIds : InFlight(c)) => coldChainTracker.isLoading
    /\ NewestListKept

(***************************************************************************)
(* The hooks in one browser.  Invocation 1 is an operation of the page     *)
(* (record, store, decrypt), invocation 2 a load, called by the page or    *)
(* awaited by invocation 1.  Other clients append to the ledgers.          *)
(***************************************************************************)
\* the form is filled in before the page calls a hook.  The names typed:
\* none, one letter, 34 CJK characters (102 bytes), 101 letters; the values
\* typed: "", "0", "1", "1.5"
Type ==
    /\ \A c \in CallIds : calls[c].pc = "none"
    /\ \/ \E keyName \in {EmptyStr, Str(1, 0, 0), Str(0, 34, 0), Str(101, 0, 0)} :
             setNewKeyName(keyName)
       \/ \E text \in {<<>>, <<0>>, <<10>>, <<15>>} : setNewKeyValue(text)

\* the button is off unless canStore holds and both inputs are filled
HandleStoreKey ==
    \/ \E ready \in BOOLEAN :
          /\ canStore(ready)
          /\ header.newKeyName # EmptyStr /\ header.newKeyValue # <<>>
          /\ handleStoreKey_call(1, ready)
    \/ handleStoreKey_resume(1)

Record == \E ready \in BOOLEAN, n \in 1 .. NumValues, isWarning \in BOOLEAN :
              recordTemperature_call(1, ready, n, isWarning)

Decrypt ==
    \/ \E ready \in BOOLEAN, i \in 1 .. Len(coldChainTracker.logs) :
          decryptTemperature_call(1, ready, coldChainTracker.logs[i].id)
    \/ \E ready \in BOOLEAN, i \in 1 .. Len(frostKeyChain.keys) :
          decryptKey_call(1, ready, frostKeyChain.keys[i].id)

Refresh ==
    \/ \E ready \in BOOLEAN : loadLogs_call(2, ready)
    \/ \E ready \in BOOLEAN, owner \in BOOLEAN : loadKeys_call(2, ready, owner)

Resume ==
    \/ \E ready \in BOOLEAN : recordTemperature_resume(1, ready)
    \/ \E ready \in BOOLEAN, owner \in BOOLEAN : storeKey_resume(1, ready, owner)
    \/ decryptTemperature_resume(1)
    \/ decryptKey_resume(1)
    \/ \E c \in CallIds : loadLogs_resume(c) \/ loadKeys_resume(c)

\* the signer records 0.0 degrees and stores the value 0 in another session
OtherSession ==
    /\ \/ recordTemperature(SignerAddress, Str(1, 0, 0), Str(3, 0, 0),
                            Handle(SignerAddress, 1), "proof", TRUE,
                            Sign(SignerAddress,
                                 RecordDigest(SignerAddress, Str(1, 0, 0), Str(3, 0, 0))))
       \/ storeKey(SignerAddress, Str(1, 0, 0), Handle(SignerAddress, 1), "proof",
                   Sign(SignerAddress, StoreDigest(SignerAddress, Str(1, 0, 0))))
    /\ UNCHANGED frontend

NextHooks ==
    \/ OtherSession
    \/ Type \/ HandleStoreKey
    \/ Record \/ Decrypt \/ Refresh
    \/ Provider \/ Resume
    \/ \E c \in CallIds : settle(c)
    \/ recordTemperature_send(1) \/ storeKey_send(1)

SpecHooks == Init /\ [][NextHooks]_vars

\* the busy flag the function fn sets, in the hook states tracker and keychain
BusyFlag(tracker, keychain, fn) ==
    CASE fn = "recordTemperature" -> tracker.isRecording
      [] fn = "decryptTemperature" -> tracker.isDecrypting
      [] fn = "loadLogs" -> tracker.isLoading
      [] fn = "storeKey" -> keychain.isStoring
      [] fn = "decryptKey" -> keychain.isDecrypting
      [] fn = "loadKeys" -> keychain.isLoading
      [] OTHER -> FALSE

HookFunctions ==
    {"recordTemperature", "decryptTemperature", "loadLogs", "storeKey", "decryptKey",
     "loadKeys"}

\* invocation c has set its flag and has not returned
Running(c) == calls[c].pc \notin {"none", "returned"}

C29_AsClaimed ==
    /\ \A i \in 1 .. Len(coldChainTracker.logs) :
          coldChainTracker.logs[i].decryptedTemperature # <<>> =>
              /\ TemperatureTimeline_decrypted(coldChainTracker.logs[i])
              /\ \E j \in 1 .. Len(avgTemperature_logs(coldChainTracker.logs)) :
                    avgTemperature_logs(coldChainTracker.logs)[j] = coldChainTracker.logs[i]
    /\ \A i \in 1 .. Len(frostKeyChain.keys) :
          frostKeyChain.keys[i].decryptedValue # <<>> =>
              Header_decrypted(frostKeyChain.keys[i])

\* the storeKey the form awaited put its key on the chain
Stored(call) ==
    call.fn = "storeKey" /\ call.pc = "returned" /\ call.error = "" /\ call.handle # <<>>

\* C30 as the specification states it: when handleStoreKey goes on after
\* storeKey, it clears the two inputs only if the key was stored on the chain;
\* otherwise it keeps them and shows the failure alert
C30_AsClaimed ==
    [][(header.pending /\ ~header'.pending) =>
          IF Stored(calls[1])
          THEN header'.newKeyName = EmptyStr /\ header'.newKeyValue = <<>>
          ELSE /\ header'.newKeyName = header.newKeyName
               /\ header'.newKeyValue = header.newKeyValue
               /\ Len(header'.alerts) = Len(header.alerts) + 1]_vars

====
